---- MODULE Spec2Model ----
(***************************************************************************)
(* Resume / job-description analyzer: the matching engine of utils.py      *)
(* (extraction, scoring, category, resonant skill) and the score step of   *)
(* resumebot.py (run_smart_resume_analyzer).                               *)
(*                                                                         *)
(* Strings are sequences of one-character strings.  Scores are Python      *)
(* floats in the source; here they are exact rationals [n, d] with d > 0.  *)
(***************************************************************************)
EXTENDS Integers, Sequences, FiniteSets, TLC

VARIABLES
    call,           \* pure-function specifications: the arguments of the call
    ret,            \* pure-function specifications: the value returned
    matcher_type,   \* st.session_state.matcher_type
    step,           \* st.session_state.step
    keys,           \* which of resumes, jd_text, resume, jd_list are in st.session_state
    resumes,        \* st.session_state.resumes (Multi-Resume Matcher)
    st_jd_key_skills,  \* st.session_state.jd_key_skills
    st_jd_years,    \* st.session_state.jd_years
    resume,         \* st.session_state.resume (Multi-JD Matcher): <<>> is None
    jd_list,        \* st.session_state.jd_list
    view,           \* what the score step rendered in the last script run
    scored,         \* resume_results / jd_results before the sort
    ranking         \* resume_results / jd_results after the sort

session == <<matcher_type, step, keys, resumes, st_jd_key_skills, st_jd_years, resume, jd_list,
             view, scored, ranking>>
vars == <<call, ret, session>>

(***************************************************************************)
(* Bounds                                                                  *)
(***************************************************************************)
MaxTextLen == 4
MaxSkills == 2
MaxResonantTextLen == 6
ScoreTenthsMax == 1005
MaxResumes == 3
MaxJDs == 2
MaxLines == 3
MaxRanges == 3
MaxPieces == 4
MaxEmailPieces == 4
MaxOrdinal == 125
MaxResponseLines == 3

\* characters of the bounded resume texts: an upper-case and a lower-case letter
TextChars == {"P", "g"}
\* required-skill strings offered to the scorer
SkillStrs == {<<"P">>, <<"g">>, <<"p", "p">>, <<"x">>}
\* str() forms of the years arguments: None, the empty string, ints, floats, text
YearsStrs == {<<"N", "o", "n", "e">>, <<>>, <<"0">>, <<"2">>, <<"4">>, <<"5">>,
              <<"2", ".", "5">>, <<"-", "2">>}

\* all sequences over S of length at most n
RECURSIVE SeqsUpTo(_, _)
SeqsUpTo(S, n) ==
    IF n = 0 THEN {<<>>}
    ELSE LET shorter == SeqsUpTo(S, n - 1)
         IN  shorter \cup {Append(s, c) : s \in {t \in shorter : Len(t) = n - 1}, c \in S}

(***************************************************************************)
(* Values                                                                  *)
(***************************************************************************)
\* Python None where a skill string is expected
None == <<"None">>
NoCall == [fn |-> "none"]
NoRet == [fn |-> "none"]

\* exact rationals
Rat(n, d) == [n |-> n, d |-> d]
RLeq(a, b) == a.n * b.d <= b.n * a.d
RLt(a, b) == a.n * b.d < b.n * a.d
REq(a, b) == a.n * b.d = b.n * a.d
RAdd(a, b) == Rat(a.n * b.d + b.n * a.d, a.d * b.d)
RMul(a, b) == Rat(a.n * b.n, a.d * b.d)
RMin(a, b) == IF RLeq(a, b) THEN a ELSE b
Min(a, b) == IF a <= b THEN a ELSE b

(***************************************************************************)
(* str.lower, str.count, re.search(r"\d+")                                 *)
(***************************************************************************)
UpperLetters == <<"A", "B", "C", "D", "E", "F", "G", "H", "I", "J", "K", "L", "M",
                  "N", "O", "P", "Q", "R", "S", "T", "U", "V", "W", "X", "Y", "Z">>
LowerLetters == <<"a", "b", "c", "d", "e", "f", "g", "h", "i", "j", "k", "l", "m",
                  "n", "o", "p", "q", "r", "s", "t", "u", "v", "w", "x", "y", "z">>
LowerChar(c) ==
    IF \E i \in DOMAIN UpperLetters : UpperLetters[i] = c
    THEN LowerLetters[CHOOSE i \in DOMAIN UpperLetters : UpperLetters[i] = c]
    ELSE c
Lower(s) == [i \in DOMAIN s |-> LowerChar(s[i])]

MatchAt(text, sub, i) ==
    /\ i + Len(sub) - 1 <= Len(text)
    /\ \A k \in 1..Len(sub) : text[i + k - 1] = sub[k]

\* str.count: non-overlapping occurrences, scanning from the left
RECURSIVE CountFrom(_, _, _)
CountFrom(text, sub, i) ==
    IF i > Len(text) + 1 THEN 0
    ELSE IF Len(sub) = 0 THEN Len(text) + 2 - i
    ELSE IF i + Len(sub) - 1 > Len(text) THEN 0
    ELSE IF MatchAt(text, sub, i) THEN 1 + CountFrom(text, sub, i + Len(sub))
    ELSE CountFrom(text, sub, i + 1)

Count(text, sub) == CountFrom(text, sub, 1)

Digits == {"0", "1", "2", "3", "4", "5", "6", "7", "8", "9"}
DigitVal(c) ==
    CASE c = "0" -> 0 [] c = "1" -> 1 [] c = "2" -> 2 [] c = "3" -> 3
      [] c = "4" -> 4 [] c = "5" -> 5 [] c = "6" -> 6 [] c = "7" -> 7
      [] c = "8" -> 8 [] c = "9" -> 9

RECURSIVE DigitRun(_, _, _)
DigitRun(s, i, acc) ==
    IF i <= Len(s) /\ s[i] \in Digits
    THEN DigitRun(s, i + 1, acc * 10 + DigitVal(s[i]))
    ELSE acc

\* int(re.search(r"\d+", str(x)).group(0)), 0 when the search finds nothing
FirstInt(s) ==
    IF \E i \in DOMAIN s : s[i] \in Digits
    THEN LET first == CHOOSE i \in DOMAIN s :
                         /\ s[i] \in Digits
                         /\ \A j \in 1..(i - 1) : s[j] \notin Digits
         IN  DigitRun(s, first, 0)
    ELSE 0

RECURSIVE SumSeq(_)
SumSeq(s) == IF s = <<>> THEN 0 ELSE Head(s) + SumSeq(Tail(s))

(***************************************************************************)
(* calculate_similarity_score                                              *)
(***************************************************************************)
\* a parse that keeps a leading minus sign
FirstIntSigned(s) ==
    IF \E i \in DOMAIN s : s[i] \in Digits
    THEN LET first == CHOOSE i \in DOMAIN s :
                         /\ s[i] \in Digits
                         /\ \A j \in 1..(i - 1) : s[j] \notin Digits
             v == DigitRun(s, first, 0)
         IN  IF first > 1 /\ s[first - 1] = "-" THEN 0 - v ELSE v
    ELSE 0

\* a parse whose except branch falls back to 1
ParseYearsDefaultOne(years_str) ==
    IF \E i \in DOMAIN years_str : years_str[i] \in Digits THEN FirstInt(years_str) ELSE 1

\* the try/except blocks that parse the two years arguments
ParseYears(years_str) == FirstInt(years_str)

\* jd_skills = [skill.lower() for skill in jd_key_skills]
LowerAll(jd_key_skills) == [i \in DOMAIN jd_key_skills |-> Lower(jd_key_skills[i])]

\* sum(1 for s in jd_skills if resume_text.lower().count(s) > 0)
SkillAppearances(resume_text, jd_skills) ==
    Cardinality({i \in DOMAIN jd_skills : Count(Lower(resume_text), jd_skills[i]) > 0})

GateNever(jd_skills, skill_appearances) == FALSE

\* if len(jd_skills) > 0 and skill_appearances == 0: return 0
Gate(jd_skills, skill_appearances) == Len(jd_skills) > 0 /\ skill_appearances = 0

ExpScoreRatioOnly(candidate_years, required_years) ==
    IF required_years = 0 THEN Rat(100, 1)
    ELSE Rat(candidate_years * 100, required_years)

ExpScore(candidate_years, required_years) ==
    IF required_years = 0 \/ candidate_years >= required_years
    THEN Rat(100, 1)
    ELSE Rat(candidate_years * 100, required_years)

TotalOccurrencesUncapped(resume_text, jd_skills) ==
    SumSeq([i \in DOMAIN jd_skills |-> Count(Lower(resume_text), jd_skills[i])])

\* sum(min(3, resume_text.lower().count(s)) for s in jd_skills)
TotalOccurrences(resume_text, jd_skills) ==
    SumSeq([i \in DOMAIN jd_skills |-> Min(3, Count(Lower(resume_text), jd_skills[i]))])

SkillsScoreUnguarded(total_occurrences, max_possible) ==
    Rat(total_occurrences * 100, max_possible)

\* (total_occurrences / max_possible) * 100 if max_possible else 0;
\* a denominator of 0 stands for ZeroDivisionError
SkillsScore(total_occurrences, max_possible) ==
    IF max_possible # 0 THEN Rat(total_occurrences * 100, max_possible) ELSE Rat(0, 1)

OverallScoreSwapped(exp_score, skills_score) ==
    RAdd(RMul(Rat(6, 10), exp_score), RMul(Rat(4, 10), skills_score))

\* 0.4 * exp_score + 0.6 * skills_score
OverallScore(exp_score, skills_score) ==
    RAdd(RMul(Rat(4, 10), exp_score), RMul(Rat(6, 10), skills_score))

\* min(overall_score, 100)
Clamp(overall_score) == RMin(overall_score, Rat(100, 1))

\* the value returned, with the locals that were assigned before the return
calculate_similarity_score(resume_text, jd_key_skills, resume_years, jd_years) ==
    LET candidate_years == ParseYears(resume_years)
        required_years == ParseYears(jd_years)
        jd_skills == LowerAll(jd_key_skills)
        skill_appearances == SkillAppearances(resume_text, jd_skills)
        exp_score == ExpScore(candidate_years, required_years)
        total_occurrences == TotalOccurrences(resume_text, jd_skills)
        max_possible == 3 * Len(jd_skills)
        skills_score == SkillsScore(total_occurrences, max_possible)
        overall_score == OverallScore(exp_score, skills_score)
    IN  IF Gate(jd_skills, skill_appearances)
        THEN [fn |-> "calculate_similarity_score", gated |-> TRUE,
              candidate_years |-> candidate_years, required_years |-> required_years,
              score |-> Rat(0, 1)]
        ELSE [fn |-> "calculate_similarity_score", gated |-> FALSE,
              candidate_years |-> candidate_years, required_years |-> required_years,
              exp_score |-> exp_score, total_occurrences |-> total_occurrences,
              skills_score |-> skills_score, overall_score |-> overall_score,
              score |-> Clamp(overall_score)]

(***************************************************************************)
(* get_similarity_category                                                 *)
(***************************************************************************)
RGeqInt(score, k) == score.n >= k * score.d

get_similarity_category_strict(score) ==
    IF RLt(Rat(90, 1), score) THEN "Best"
    ELSE IF RGeqInt(score, 70) THEN "Better"
    ELSE IF RGeqInt(score, 50) THEN "Good"
    ELSE IF RGeqInt(score, 30) THEN "Average"
    ELSE IF RGeqInt(score, 10) THEN "Bad"
    ELSE "Worst"

get_similarity_category(score) ==
    IF RGeqInt(score, 90) THEN "Best"
    ELSE IF RGeqInt(score, 70) THEN "Better"
    ELSE IF RGeqInt(score, 50) THEN "Good"
    ELSE IF RGeqInt(score, 30) THEN "Average"
    ELSE IF RGeqInt(score, 10) THEN "Bad"
    ELSE "Worst"

(***************************************************************************)
(* get_resonant_skill                                                      *)
(***************************************************************************)
\* one iteration of the for loop: st = [max_count, resonant_skill]
ResonantStepLastWins(st, resume_text_lower, skill) ==
    LET count == Count(resume_text_lower, skill)
    IN  IF count >= st.max_count
        THEN [max_count |-> count, resonant_skill |-> skill]
        ELSE st

ResonantStep(st, resume_text_lower, skill) ==
    LET count == Count(resume_text_lower, skill)
    IN  IF count > st.max_count
        THEN [max_count |-> count, resonant_skill |-> skill]
        ELSE st

RECURSIVE ResonantLoop(_, _, _, _)
ResonantLoop(st, resume_text_lower, filtered_skills, i) ==
    IF i > Len(filtered_skills) THEN st
    ELSE ResonantLoop(ResonantStep(st, resume_text_lower, filtered_skills[i]),
                      resume_text_lower, filtered_skills, i + 1)

get_resonant_skill(resume_text, jd_key_skills) ==
    LET resume_text_lower == Lower(resume_text)
        filtered_skills == LowerAll(jd_key_skills)
    IN  ResonantLoop([max_count |-> 0, resonant_skill |-> None],
                     resume_text_lower, filtered_skills, 1).resonant_skill

(***************************************************************************)
(* The session of run_smart_resume_analyzer: one action per script run     *)
(***************************************************************************)
MultiResume == "Multi-Resume Matcher"
MultiJD == "Multi-JD Matcher"
MatcherTypes == {MultiResume, MultiJD}
Steps == {"init", "resume_upload", "jd_choice", "jd_upload", "jd_manual", "score"}

\* init_session_state: the keys it makes sure exist for a matcher type
InitKeys(m) == IF m = MultiResume THEN {"resumes"} ELSE {"resume", "jd_list"}

\* the state after the first script run, the radio at its default
SessionInit ==
    /\ matcher_type = MultiResume
    /\ step = "init"
    /\ keys = InitKeys(MultiResume)
    /\ resumes = <<>>
    /\ st_jd_key_skills = <<>>
    /\ st_jd_years = 0
    /\ resume = <<>>
    /\ jd_list = <<>>
    /\ view = "none"
    /\ scored = <<>>
    /\ ranking = <<>>

\* str.strip
RECURSIVE LStrip(_)
LStrip(s) == IF s # <<>> /\ Head(s) = " " THEN LStrip(Tail(s)) ELSE s
RECURSIVE RStrip(_)
RStrip(s) == IF s # <<>> /\ s[Len(s)] = " " THEN RStrip(SubSeq(s, 1, Len(s) - 1)) ELSE s
Strip(s) == RStrip(LStrip(s))

\* str.split(",")
RECURSIVE SplitComma(_)
SplitComma(s) ==
    IF \E i \in DOMAIN s : s[i] = ","
    THEN LET first == CHOOSE i \in DOMAIN s :
                         s[i] = "," /\ \A j \in 1..(i - 1) : s[j] # ","
         IN  <<SubSeq(s, 1, first - 1)>> \o SplitComma(SubSeq(s, first + 1, Len(s)))
    ELSE <<s>>

\* [x.strip() for x in parts if x.strip()]
RECURSIVE StripNonEmpty(_)
StripNonEmpty(parts) ==
    IF parts = <<>> THEN <<>>
    ELSE (IF Strip(Head(parts)) # <<>> THEN <<Strip(Head(parts))>> ELSE <<>>)
         \o StripNonEmpty(Tail(parts))

\* for keyword in tags: processed.extend([skill.strip() for skill in keyword.split(",") if skill.strip()])
RECURSIVE ProcessKeywords(_)
ProcessKeywords(tags) ==
    IF tags = <<>> THEN <<>>
    ELSE StripNonEmpty(SplitComma(Head(tags))) \o ProcessKeywords(Tail(tags))

OverrideOnly(override_processed_keywords, current_jd_keywords) ==
    override_processed_keywords

OverrideAndCurrent(override_processed_keywords, current_jd_keywords) ==
    override_processed_keywords \o current_jd_keywords

\* override_processed_keywords if override_processed_keywords else current_jd_keywords
\* (the same conditional builds each entry of override_jd_list)
OverrideOrCurrent(override_processed_keywords, current_jd_keywords) ==
    IF override_processed_keywords # <<>>
    THEN override_processed_keywords
    ELSE current_jd_keywords

\* str() of a non-negative int, and of a float with one decimal (value in tenths)
DigitChars == <<"0", "1", "2", "3", "4", "5", "6", "7", "8", "9">>
RECURSIVE IntStr(_)
IntStr(n) ==
    IF n < 10 THEN <<DigitChars[n + 1]>>
    ELSE Append(IntStr(n \div 10), DigitChars[(n % 10) + 1])
FloatStr(tenths) == IntStr(tenths \div 10) \o <<".", DigitChars[(tenths % 10) + 1]>>

process_chat_input_exact(current_step, user_message) ==
    LET user_message_clean == user_message
    IN  IF current_step = "init"
        THEN (IF user_message_clean = <<"r", "e", "a", "d", "y">>
              THEN "resume_upload" ELSE current_step)
        ELSE IF current_step = "resume_upload"
        THEN (IF user_message_clean = <<"c", "o", "n", "t", "i", "n", "u", "e">>
              THEN "jd_choice" ELSE current_step)
        ELSE IF current_step = "jd_choice"
        THEN (IF user_message_clean = <<"u", "p", "l", "o", "a", "d">> THEN "jd_upload"
              ELSE IF user_message_clean = <<"m", "a", "n", "u", "a", "l">> THEN "jd_manual"
              ELSE current_step)
        ELSE IF current_step \in {"jd_upload", "jd_manual"}
        THEN (IF user_message_clean = <<"c", "o", "n", "t", "i", "n", "u", "e">>
              THEN "score" ELSE current_step)
        ELSE current_step

\* process_chat_input: the step after the message
process_chat_input(current_step, user_message) ==
    LET user_message_clean == Lower(Strip(user_message))
    IN  IF current_step = "init"
        THEN (IF user_message_clean = <<"r", "e", "a", "d", "y">>
              THEN "resume_upload" ELSE current_step)
        ELSE IF current_step = "resume_upload"
        THEN (IF user_message_clean = <<"c", "o", "n", "t", "i", "n", "u", "e">>
              THEN "jd_choice" ELSE current_step)
        ELSE IF current_step = "jd_choice"
        THEN (IF user_message_clean = <<"u", "p", "l", "o", "a", "d">> THEN "jd_upload"
              ELSE IF user_message_clean = <<"m", "a", "n", "u", "a", "l">> THEN "jd_manual"
              ELSE current_step)
        ELSE IF current_step \in {"jd_upload", "jd_manual"}
        THEN (IF user_message_clean = <<"c", "o", "n", "t", "i", "n", "u", "e">>
              THEN "score" ELSE current_step)
        ELSE current_step

\* the loop body of the Calculate Score button: one result record
ScoreOne(file_name, resume_text, key_skills, resume_years_str, jd_years_str) ==
    LET score == calculate_similarity_score(resume_text, key_skills,
                                            resume_years_str, jd_years_str).score
    IN  [file_name |-> file_name,
         score |-> score,
         category |-> get_similarity_category(score),
         resonant_skill |-> get_resonant_skill(resume_text, key_skills)]

\* where sorted(..., reverse=True) puts an element among those already placed
InsertBeforeEqual(placed, x) ==
    LET k == Cardinality({i \in DOMAIN placed : RLt(x.score, placed[i].score)})
    IN  SubSeq(placed, 1, k) \o <<x>> \o SubSeq(placed, k + 1, Len(placed))

InsertAfterEqual(placed, x) ==
    LET k == Cardinality({i \in DOMAIN placed : RLeq(x.score, placed[i].score)})
    IN  SubSeq(placed, 1, k) \o <<x>> \o SubSeq(placed, k + 1, Len(placed))

\* sorted(results, key=lambda x: x["score"], reverse=True): a stable sort
RECURSIVE SortedByScoreDesc(_)
SortedByScoreDesc(results) ==
    IF results = <<>> THEN <<>>
    ELSE InsertAfterEqual(SortedByScoreDesc(SubSeq(results, 1, Len(results) - 1)),
                          results[Len(results)])

\* uploaded resume files: name, text read from the PDF, years typed in (tenths)
ResumeFiles ==
    { [file_name |-> "a.pdf", resume_text |-> <<"P">>, manual_years |-> 30],
      [file_name |-> "b.pdf", resume_text |-> <<"P", "P">>, manual_years |-> 40],
      [file_name |-> "c.pdf", resume_text |-> <<"P", "P">>, manual_years |-> 10] }
\* uploaded JD files: name, skills and years extracted from the PDF text
JdFiles ==
    { [file_name |-> "j.pdf", jd_key_skills |-> <<<<"P">>>>, jd_years |-> 4],
      [file_name |-> "k.pdf", jd_key_skills |-> <<<<"p">>>>, jd_years |-> 4] }
\* tags typed into the st_tags widgets
TagLists == {<<>>, <<<<" ">>>>, <<<<"x", ",", " ", "P">>>>}
\* values of the required-years number inputs
YearsInputs == {0, 4}
\* chat messages
ChatMessages ==
    { <<"r", "e", "a", "d", "y">>, <<" ", "R", "e", "a", "d", "y", " ">>,
      <<"c", "o", "n", "t", "i", "n", "u", "e">>, <<"u", "p", "l", "o", "a", "d">>,
      <<"m", "a", "n", "u", "a", "l">>, <<"h", "i">> }

\* sequences of distinct elements of S, at most n long
DistinctSeqs(S, n) == {q \in SeqsUpTo(S, n) : \A i, j \in DOMAIN q : i # j => q[i] # q[j]}

\* the check at the top of the score step
ScoreInputsPresent(m, ks, res, jl) ==
    IF m = MultiResume
    THEN "resumes" \in ks /\ "jd_text" \in ks
    ELSE res # <<>> /\ jl # <<>>

\* a script run with matcher type m and step s in which no upload or button
\* of the step is used: init_session_state, then the step's section.  The
\* matcher-type radio keeps its value between Restarts.
Render(m, s) ==
    LET entering == ~(m = matcher_type /\ s = step)
    IN  /\ matcher_type' = m
        /\ step' = s
        /\ keys' = keys \cup InitKeys(m)
        /\ resumes' = IF m = MultiResume /\ s = "resume_upload" /\ entering
                      THEN <<>> ELSE resumes
        /\ jd_list' = IF m = MultiJD /\ s = "jd_upload" /\ entering
                      THEN <<>> ELSE jd_list
        /\ view' = IF s # "score" THEN "none"
                   ELSE IF ScoreInputsPresent(m, keys', resume, jd_list') THEN "form"
                   ELSE "warning"
        /\ scored' = <<>>
        /\ ranking' = <<>>
        /\ UNCHANGED <<st_jd_key_skills, st_jd_years, resume, call, ret>>

\* the chat form is submitted with a non-empty message
ChatSend ==
    \E user_input \in ChatMessages :
        /\ user_input # <<>>
        /\ Render(matcher_type, process_chat_input(step, user_input))

\* sidebar "Go to Step"
GoToStep ==
    \E target \in Steps \ {"init"} : Render(matcher_type, target)

\* Multi-Resume Matcher, step 1: the uploader's files are processed
UploadResumes ==
    /\ matcher_type = MultiResume
    /\ step = "resume_upload"
    /\ \E files \in DistinctSeqs(ResumeFiles, MaxResumes) : resumes' = files
    /\ keys' = keys \cup {"resumes"}
    /\ UNCHANGED <<matcher_type, step, st_jd_key_skills, st_jd_years, resume, jd_list,
                   view, scored, ranking, call, ret>>

\* Multi-JD Matcher, step 1: the uploaded resume is processed
UploadResume ==
    /\ matcher_type = MultiJD
    /\ step = "resume_upload"
    /\ \E file \in ResumeFiles : resume' = <<file>>
    /\ UNCHANGED <<matcher_type, step, keys, resumes, st_jd_key_skills, st_jd_years,
                   jd_list, view, scored, ranking, call, ret>>

\* Multi-Resume Matcher, step 2A: the uploaded JD is processed
UploadJD ==
    /\ matcher_type = MultiResume
    /\ step = "jd_upload"
    /\ \E file \in JdFiles :
           /\ st_jd_key_skills' = file.jd_key_skills
           /\ st_jd_years' = file.jd_years
    /\ keys' = keys \cup {"jd_text"}
    /\ UNCHANGED <<matcher_type, step, resumes, resume, jd_list, view, scored, ranking,
                   call, ret>>

\* Multi-JD Matcher, step 2A: jd_list is rebuilt from the uploader's files
UploadJDs ==
    /\ matcher_type = MultiJD
    /\ step = "jd_upload"
    /\ \E files \in DistinctSeqs(JdFiles, MaxJDs) : jd_list' = files
    /\ UNCHANGED <<matcher_type, step, keys, resumes, st_jd_key_skills, st_jd_years,
                   resume, view, scored, ranking, call, ret>>

\* Multi-Resume Matcher, step 2B: "Save Manual JD Input"
SaveManualJD ==
    /\ matcher_type = MultiResume
    /\ step = "jd_manual"
    /\ \E manual_keywords_input \in TagLists, manual_years \in YearsInputs :
           /\ st_jd_key_skills' = ProcessKeywords(manual_keywords_input)
           /\ st_jd_years' = manual_years
    /\ keys' = keys \cup {"jd_text"}
    /\ UNCHANGED <<matcher_type, step, resumes, resume, jd_list, view, scored, ranking,
                   call, ret>>

\* Multi-JD Matcher, step 2B: "Add JD"
AddJD ==
    /\ matcher_type = MultiJD
    /\ step = "jd_manual"
    /\ Len(jd_list) < MaxJDs
    /\ \E manual_keywords_input \in TagLists, manual_years \in YearsInputs :
           jd_list' = Append(jd_list,
                             [file_name |-> "Manual JD",
                              jd_key_skills |-> ProcessKeywords(manual_keywords_input),
                              jd_years |-> manual_years])
    /\ UNCHANGED <<matcher_type, step, keys, resumes, st_jd_key_skills, st_jd_years,
                   resume, view, scored, ranking, call, ret>>

CalculateScoreResumesStoringOverride ==
    /\ matcher_type = MultiResume
    /\ step = "score"
    /\ ScoreInputsPresent(matcher_type, keys, resume, jd_list)
    /\ \E override_jd_keywords_input \in TagLists, override_jd_years \in YearsInputs :
           LET current_jd_keywords == st_jd_key_skills
               override_processed_keywords == ProcessKeywords(override_jd_keywords_input)
               used_jd_skills == OverrideOrCurrent(override_processed_keywords,
                                                   current_jd_keywords)
               resume_results ==
                   [i \in DOMAIN resumes |->
                       ScoreOne(resumes[i].file_name, resumes[i].resume_text,
                                used_jd_skills, FloatStr(resumes[i].manual_years),
                                IntStr(override_jd_years))]
           IN  /\ scored' = resume_results
               /\ ranking' = SortedByScoreDesc(scored')
               /\ st_jd_key_skills' = used_jd_skills
               /\ st_jd_years' = override_jd_years
    /\ view' = "ranking"
    /\ UNCHANGED <<matcher_type, step, keys, resumes, resume, jd_list, call, ret>>

\* Multi-Resume Matcher, step 3: "Calculate Score" with the override widgets' values
CalculateScoreResumes ==
    /\ matcher_type = MultiResume
    /\ step = "score"
    /\ ScoreInputsPresent(matcher_type, keys, resume, jd_list)
    /\ \E override_jd_keywords_input \in TagLists, override_jd_years \in YearsInputs :
           LET current_jd_keywords == st_jd_key_skills
               override_processed_keywords == ProcessKeywords(override_jd_keywords_input)
               used_jd_skills == OverrideOrCurrent(override_processed_keywords,
                                                   current_jd_keywords)
               resume_results ==
                   [i \in DOMAIN resumes |->
                       ScoreOne(resumes[i].file_name, resumes[i].resume_text,
                                used_jd_skills, FloatStr(resumes[i].manual_years),
                                IntStr(override_jd_years))]
           IN  /\ scored' = resume_results
               /\ ranking' = SortedByScoreDesc(scored')
    /\ view' = "ranking"
    /\ UNCHANGED <<matcher_type, step, keys, resumes, st_jd_key_skills, st_jd_years,
                   resume, jd_list, call, ret>>

\* Multi-JD Matcher, step 3: "Calculate Score" with one override per JD
CalculateScoreJDs ==
    /\ matcher_type = MultiJD
    /\ step = "score"
    /\ ScoreInputsPresent(matcher_type, keys, resume, jd_list)
    /\ \E override_keywords \in [DOMAIN jd_list -> TagLists],
          override_years \in [DOMAIN jd_list -> YearsInputs] :
           LET override_jd_list ==
                   [i \in DOMAIN jd_list |->
                       LET override_processed_keywords == StripNonEmpty(override_keywords[i])
                       IN  [jd_key_skills |-> OverrideOrCurrent(override_processed_keywords,
                                                                jd_list[i].jd_key_skills),
                            jd_years |-> override_years[i],
                            file_name |-> jd_list[i].file_name]]
               jd_results ==
                   [i \in DOMAIN jd_list |->
                       ScoreOne(override_jd_list[i].file_name, resume[1].resume_text,
                                override_jd_list[i].jd_key_skills,
                                FloatStr(resume[1].manual_years),
                                IntStr(override_jd_list[i].jd_years))]
           IN  /\ scored' = jd_results
               /\ ranking' = SortedByScoreDesc(scored')
    /\ view' = "ranking"
    /\ UNCHANGED <<matcher_type, step, keys, resumes, st_jd_key_skills, st_jd_years,
                   resume, jd_list, call, ret>>

\* "Restart": every key is deleted; the next run initialises the session again
\* with whatever the matcher-type radio then shows
Restart ==
    /\ \E m \in MatcherTypes :
           /\ matcher_type' = m
           /\ keys' = InitKeys(m)
    /\ step' = "init"
    /\ resumes' = <<>>
    /\ st_jd_key_skills' = <<>>
    /\ st_jd_years' = 0
    /\ resume' = <<>>
    /\ jd_list' = <<>>
    /\ view' = "none"
    /\ scored' = <<>>
    /\ ranking' = <<>>
    /\ UNCHANGED <<call, ret>>

Init == call = NoCall /\ ret = NoRet /\ SessionInit

Next ==
    \/ ChatSend
    \/ GoToStep
    \/ UploadResumes
    \/ UploadResume
    \/ UploadJD
    \/ UploadJDs
    \/ SaveManualJD
    \/ AddJD
    \/ CalculateScoreResumes
    \/ CalculateScoreJDs
    \/ Restart

Spec == Init /\ [][Next]_vars

(***************************************************************************)
(* Specifications of the pure functions: Init draws the arguments, the     *)
(* action applies the function.                                            *)
(***************************************************************************)
Texts == SeqsUpTo(TextChars, MaxTextLen)
SkillLists == SeqsUpTo(SkillStrs, MaxSkills)

ScoreCalls ==
    [fn : {"calculate_similarity_score"}, resume_text : Texts,
     jd_key_skills : SkillLists, resume_years : YearsStrs, jd_years : YearsStrs]

InitScore == call \in ScoreCalls /\ ret = NoRet /\ SessionInit

CallScore ==
    /\ call.fn = "calculate_similarity_score"
    /\ ret = NoRet
    /\ ret' = calculate_similarity_score(call.resume_text, call.jd_key_skills,
                                         call.resume_years, call.jd_years)
    /\ UNCHANGED <<call, session>>

SpecScore == InitScore /\ [][CallScore]_vars

\* scores in tenths, from 0.0 up to ScoreTenthsMax / 10
CategoryCalls ==
    [fn : {"get_similarity_category"}, score : {Rat(k, 10) : k \in 0..ScoreTenthsMax}]

InitCategory == call \in CategoryCalls /\ ret = NoRet /\ SessionInit

CallCategory ==
    /\ call.fn = "get_similarity_category"
    /\ ret = NoRet
    /\ ret' = [fn |-> "get_similarity_category",
               category |-> get_similarity_category(call.score)]
    /\ UNCHANGED <<call, session>>

SpecCategory == InitCategory /\ [][CallCategory]_vars

ResonantCalls ==
    [fn : {"get_resonant_skill"}, resume_text : SeqsUpTo(TextChars, MaxResonantTextLen),
     jd_key_skills : SkillLists]

InitResonant == call \in ResonantCalls /\ ret = NoRet /\ SessionInit

CallResonant ==
    /\ call.fn = "get_resonant_skill"
    /\ ret = NoRet
    /\ ret' = [fn |-> "get_resonant_skill",
               resonant_skill |-> get_resonant_skill(call.resume_text, call.jd_key_skills)]
    /\ UNCHANGED <<call, session>>

SpecResonant == InitResonant /\ [][CallResonant]_vars

(***************************************************************************)
(* extract_years_experience.  A text is a sequence of atoms: one-character *)
(* strings, and whole words ("years", "Jan", "Present", ...) standing for  *)
(* a run of letters.  Two word atoms are never adjacent in the texts drawn.*)
(***************************************************************************)
Spaces == {" ", "\n"}
\* words matched by (?:years?|yrs?)
UnitWords == {"years", "yrs"}
\* words matched by [A-Za-z]{3,}
LetterWords == {"years", "yrs", "Jan", "Feb", "Foo", "Present"}
\* month names dateutil's parser knows, with their month number
MonthWords == {"Jan", "Feb"}
MonthNumber(w) == IF w = "Jan" THEN 1 ELSE 2

At(text, i) == IF i \in DOMAIN text THEN text[i] ELSE "<end>"

\* the first index from i on that does not hold a digit
RECURSIVE DigitsEnd(_, _)
DigitsEnd(text, i) == IF At(text, i) \in Digits THEN DigitsEnd(text, i + 1) ELSE i
\* the first index from i on that does not hold whitespace
RECURSIVE SpacesEnd(_, _)
SpacesEnd(text, i) == IF At(text, i) \in Spaces THEN SpacesEnd(text, i + 1) ELSE i

RECURSIVE Pow10(_)
Pow10(k) == IF k = 0 THEN 1 ELSE 10 * Pow10(k - 1)

\* regex_explicit tried at index i: (\d+(?:\.\d+)?)\+?\s*(?:years?|yrs?)
ExplicitMatchAt(text, i) ==
    LET int_end == DigitsEnd(text, i)
        has_frac == At(text, int_end) = "." /\ At(text, int_end + 1) \in Digits
        num_end == IF has_frac THEN DigitsEnd(text, int_end + 1) ELSE int_end
        frac_len == IF has_frac THEN num_end - int_end - 1 ELSE 0
        plus_end == IF At(text, num_end) = "+" THEN num_end + 1 ELSE num_end
        unit_at == SpacesEnd(text, plus_end)
        \* float(match)
        value == Rat(DigitRun(text, i, 0) * Pow10(frac_len)
                       + (IF has_frac THEN DigitRun(text, int_end + 1, 0) ELSE 0),
                     Pow10(frac_len))
    IN  [ok |-> At(text, i) \in Digits /\ At(text, unit_at) \in UnitWords,
         value |-> value,
         next |-> unit_at + 1]

\* regex_explicit.findall(text) from index i on
RECURSIVE FindExplicit(_, _)
FindExplicit(text, i) ==
    IF i > Len(text) THEN <<>>
    ELSE LET m == ExplicitMatchAt(text, i)
         IN  IF m.ok THEN <<m.value>> \o FindExplicit(text, m.next)
             ELSE FindExplicit(text, i + 1)

RECURSIVE MinRatOf(_)
MinRatOf(values) ==
    IF Len(values) = 1 THEN values[1]
    ELSE RMin(values[1], MinRatOf(Tail(values)))

\* max(years_list)
RECURSIVE MaxRatOf(_)
MaxRatOf(values) ==
    IF Len(values) = 1 THEN values[1]
    ELSE LET rest == MaxRatOf(Tail(values))
         IN  IF RLt(values[1], rest) THEN rest ELSE values[1]

\* round(x, 1): the nearest tenth (no value of the texts drawn lies half-way)
Round1(x) == Rat((20 * x.n + x.d) \div (2 * x.d), 10)

ExplicitYearsMin(explicit_matches) == Round1(MinRatOf(explicit_matches))

\* return round(max(years_list), 1)
ExplicitYears(explicit_matches) == Round1(MaxRatOf(explicit_matches))

\* [A-Za-z]{3,}\.?\s+\d{4} tried at index i
MonthYearAt(text, i) ==
    LET dot_end == IF At(text, i + 1) = "." THEN i + 2 ELSE i + 1
        year_at == SpacesEnd(text, dot_end)
    IN  [ok |-> /\ At(text, i) \in LetterWords
                /\ year_at > dot_end
                /\ \A k \in 0..3 : At(text, year_at + k) \in Digits,
         word |-> At(text, i),
         year |-> IF year_at + 3 <= Len(text)
                  THEN DigitRun(SubSeq(text, year_at, year_at + 3), 1, 0) ELSE 0,
         next |-> year_at + 4]

\* regex_date tried at index i:
\* ([A-Za-z]{3,}\.?\s+\d{4})\s*(?:-)\s*(Present|[A-Za-z]{3,}\.?\s+\d{4})
DateMatchAt(text, i) ==
    LET start == MonthYearAt(text, i)
        dash_at == SpacesEnd(text, start.next)
        end_at == SpacesEnd(text, dash_at + 1)
        end == MonthYearAt(text, end_at)
        present == At(text, end_at) = "Present"
    IN  [ok |-> start.ok /\ At(text, dash_at) = "-" /\ (present \/ end.ok),
         start_str |-> [word |-> start.word, year |-> start.year],
         end_str |-> IF present THEN [word |-> "Present", year |-> 0]
                     ELSE [word |-> end.word, year |-> end.year],
         next |-> IF present THEN end_at + 1 ELSE end.next]

\* regex_date.findall(text) from index i on
RECURSIVE FindDates(_, _)
FindDates(text, i) ==
    IF i > Len(text) THEN <<>>
    ELSE LET m == DateMatchAt(text, i)
         IN  IF m.ok THEN <<[start_str |-> m.start_str, end_str |-> m.end_str]>>
                          \o FindDates(text, m.next)
             ELSE FindDates(text, i + 1)

\* the calendar: days of a month, and the day number of a date
IsLeap(y) == (y % 4 = 0 /\ y % 100 # 0) \/ y % 400 = 0
DaysInMonth(y, m) ==
    IF m = 2 THEN (IF IsLeap(y) THEN 29 ELSE 28)
    ELSE IF m \in {4, 6, 9, 11} THEN 30 ELSE 31
RECURSIVE DaysBeforeMonth(_, _)
DaysBeforeMonth(y, m) ==
    IF m = 1 THEN 0 ELSE DaysBeforeMonth(y, m - 1) + DaysInMonth(y, m - 1)
DayNumber(y, m, d) ==
    365 * (y - 1) + ((y - 1) \div 4) - ((y - 1) \div 100) + ((y - 1) \div 400)
      + DaysBeforeMonth(y, m) + d

\* dateutil's parser.parse on "<word> <year>": a month name gives that month of
\* the year on today's day of the month (the last day of the month if that is
\* earlier); any other word raises
Parseable(s) == s.word \in MonthWords /\ s.year >= 1
Parse(s, now) ==
    DayNumber(s.year, MonthNumber(s.word), Min(now.d, DaysInMonth(s.year, MonthNumber(s.word))))

RECURSIVE ParsedIntervalsUntilFailure(_, _)
ParsedIntervalsUntilFailure(date_matches, now) ==
    IF date_matches = <<>> THEN <<>>
    ELSE LET m == Head(date_matches)
             present == m.end_str.word = "Present"
             parsed == Parseable(m.start_str) /\ (present \/ Parseable(m.end_str))
             start_date == Parse(m.start_str, now)
             end_date == IF present THEN DayNumber(now.y, now.m, now.d)
                         ELSE Parse(m.end_str, now)
         IN  IF parsed
             THEN <<[start |-> start_date, end |-> end_date]>>
                  \o ParsedIntervalsUntilFailure(Tail(date_matches), now)
             ELSE <<>>

\* the for loop over date_matches: ranges whose bounds parse, as day numbers
RECURSIVE ParsedIntervals(_, _)
ParsedIntervals(date_matches, now) ==
    IF date_matches = <<>> THEN <<>>
    ELSE LET m == Head(date_matches)
             present == m.end_str.word = "Present"
             parsed == Parseable(m.start_str) /\ (present \/ Parseable(m.end_str))
             start_date == Parse(m.start_str, now)
             end_date == IF present THEN DayNumber(now.y, now.m, now.d)
                         ELSE Parse(m.end_str, now)
         IN  (IF parsed THEN <<[start |-> start_date, end |-> end_date]>> ELSE <<>>)
             \o ParsedIntervals(Tail(date_matches), now)

InsertByStart(placed, x) ==
    LET k == Cardinality({i \in DOMAIN placed : placed[i].start <= x.start})
    IN  SubSeq(placed, 1, k) \o <<x>> \o SubSeq(placed, k + 1, Len(placed))

\* intervals.sort(key=lambda interval: interval[0])
RECURSIVE SortedByStart(_)
SortedByStart(intervals) ==
    IF intervals = <<>> THEN <<>>
    ELSE InsertByStart(SortedByStart(SubSeq(intervals, 1, Len(intervals) - 1)),
                       intervals[Len(intervals)])

Max(a, b) == IF a >= b THEN a ELSE b

MergeStepLastEnd(merged_intervals, current) ==
    LET last == merged_intervals[Len(merged_intervals)]
    IN  IF current.start <= last.end
        THEN [merged_intervals EXCEPT ![Len(merged_intervals)] =
                 [start |-> last.start, end |-> current.end]]
        ELSE Append(merged_intervals, current)

\* one iteration of the merge loop
MergeStep(merged_intervals, current) ==
    LET last == merged_intervals[Len(merged_intervals)]
    IN  IF current.start <= last.end
        THEN [merged_intervals EXCEPT ![Len(merged_intervals)] =
                 [start |-> last.start, end |-> Max(last.end, current.end)]]
        ELSE Append(merged_intervals, current)

RECURSIVE MergeLoop(_, _, _)
MergeLoop(merged_intervals, intervals, i) ==
    IF i > Len(intervals) THEN merged_intervals
    ELSE MergeLoop(MergeStep(merged_intervals, intervals[i]), intervals, i + 1)

\* merged_intervals of the sorted intervals (non-empty)
MergedIntervals(sorted_intervals) == MergeLoop(<<sorted_intervals[1]>>, sorted_intervals, 2)

TotalDays(merged_intervals) ==
    SumSeq([i \in DOMAIN merged_intervals |-> merged_intervals[i].end - merged_intervals[i].start])

\* round(total_days / 365.25, 1)
YearsOfDays(total_days) == Round1(Rat(total_days * 100, 36525))

extract_years_experience_dates_first(text, now) ==
    LET explicit_matches == FindExplicit(text, 1)
        date_matches == FindDates(text, 1)
        intervals == ParsedIntervals(date_matches, now)
        merged_intervals == MergedIntervals(SortedByStart(intervals))
        total_days == TotalDays(merged_intervals)
    IN  IF intervals # <<>>
        THEN [fn |-> "extract_years_experience", tier |-> "dates",
              intervals |-> intervals, merged_intervals |-> merged_intervals,
              total_days |-> total_days,
              years |-> YearsOfDays(total_days)]
        ELSE IF explicit_matches # <<>>
        THEN [fn |-> "extract_years_experience", tier |-> "explicit",
              explicit_matches |-> explicit_matches,
              years |-> ExplicitYears(explicit_matches)]
        ELSE [fn |-> "extract_years_experience", tier |-> "None"]

\* the value returned, with the locals that were assigned before the return
extract_years_experience(text, now) ==
    LET explicit_matches == FindExplicit(text, 1)
        date_matches == FindDates(text, 1)
        intervals == ParsedIntervals(date_matches, now)
        merged_intervals == MergedIntervals(SortedByStart(intervals))
        total_days == TotalDays(merged_intervals)
    IN  IF explicit_matches # <<>>
        THEN [fn |-> "extract_years_experience", tier |-> "explicit",
              explicit_matches |-> explicit_matches,
              years |-> ExplicitYears(explicit_matches)]
        ELSE IF intervals # <<>>
        THEN [fn |-> "extract_years_experience", tier |-> "dates",
              intervals |-> intervals, merged_intervals |-> merged_intervals,
              total_days |-> total_days,
              years |-> YearsOfDays(total_days)]
        ELSE [fn |-> "extract_years_experience", tier |-> "None"]

\* lines a text is made of
ThreeYears == <<"3", " ", "years">>
SevenPlusYears == <<"7", "+", " ", "years">>
DecimalYrs == <<"2", ".", "3", "7", "yrs">>
DottedYears == <<"3", ".", "7", ".", "1", "years">>
Yrs == <<"yrs">>
Range2019To2020 ==
    <<"Jan", " ", "2", "0", "1", "9", " ", "-", " ", "Jan", " ", "2", "0", "2", "0">>
RangeToPresent == <<"Feb", ".", " ", "2", "0", "2", "0", "-", "Present">>
RangeReversed ==
    <<"Jan", " ", "2", "0", "2", "0", " ", "-", " ", "Feb", " ", "2", "0", "1", "9">>
RangeUnparseable ==
    <<"Foo", " ", "2", "0", "1", "9", " ", "-", " ", "Jan", " ", "2", "0", "2", "0">>
DateRangeLines == {Range2019To2020, RangeToPresent, RangeReversed, RangeUnparseable}
Phrases == {ThreeYears, SevenPlusYears, DecimalYrs, DottedYears, Yrs} \cup DateRangeLines

\* "\n".join(lines)
RECURSIVE JoinLines(_)
JoinLines(lines) ==
    IF lines = <<>> THEN <<>>
    ELSE IF Len(lines) = 1 THEN lines[1]
    ELSE lines[1] \o <<"\n">> \o JoinLines(Tail(lines))

\* datetime.now() at the time of the call
Nows == {[y |-> 2026, m |-> 11, d |-> 6], [y |-> 2021, m |-> 1, d |-> 31]}

YearsCalls ==
    { [fn |-> "extract_years_experience", lines |-> lines, text |-> JoinLines(lines),
       now |-> now] : lines \in SeqsUpTo(Phrases, MaxLines), now \in Nows }

InitYears == call \in YearsCalls /\ ret = NoRet /\ SessionInit

CallYears ==
    /\ call.fn = "extract_years_experience"
    /\ ret = NoRet
    /\ ret' = extract_years_experience(call.text, call.now)
    /\ UNCHANGED <<call, session>>

SpecYears == InitYears /\ [][CallYears]_vars

\* texts made of employment date ranges only: "<Month Year> - <Month Year>" and
\* "<Month Year> - Present" lines over a few months, in either order of the
\* bounds, with a bound dateutil cannot parse among them
MonthYear(word, y1, y2, y3, y4) == <<word, " ", y1, y2, y3, y4>>
RangeStarts ==
    { MonthYear("Jan", "2", "0", "1", "9"), MonthYear("Feb", "2", "0", "1", "9"),
      MonthYear("Feb", "2", "0", "2", "0") }
RangeEnds ==
    { MonthYear("Feb", "2", "0", "1", "9"), MonthYear("Jan", "2", "0", "2", "0"),
      <<"Present">> }
RangeLine(start, end) == start \o <<" ", "-", " ">> \o end
UnparseableStartLine ==
    RangeLine(MonthYear("Foo", "2", "0", "1", "9"), MonthYear("Jan", "2", "0", "2", "0"))
UnparseableEndLine ==
    RangeLine(MonthYear("Jan", "2", "0", "1", "9"), MonthYear("Foo", "2", "0", "2", "0"))
RangeLines ==
    { RangeLine(start, end) : start \in RangeStarts, end \in RangeEnds }
      \cup {UnparseableStartLine, UnparseableEndLine}

RangesCalls ==
    { [fn |-> "extract_years_experience", lines |-> lines, text |-> JoinLines(lines),
       now |-> now] : lines \in SeqsUpTo(RangeLines, MaxRanges), now \in Nows }

InitRanges == call \in RangesCalls /\ ret = NoRet /\ SessionInit

SpecRanges == InitRanges /\ [][CallYears]_vars

(***************************************************************************)
(* extract_skills_from_text.  Texts are sequences of atoms as above; no    *)
(* word atom contains a header keyword as a proper part.                   *)
(***************************************************************************)
\* header_keywords, lower case, word by word
header_keywords ==
    << <<"skills">>, <<"skill", " ", "set">>, <<"technical", " ", "skills">>,
       <<"areas", " ", "of", " ", "expertise">>, <<"competencies">>,
       <<"proficiencies">>, <<"abilities">>, <<"tools">>, <<"technologies">> >>

\* re.IGNORECASE on a word atom
LowerWord(w) ==
    CASE w = "Skills" -> "skills"
      [] w = "Skill" -> "skill"
      [] w = "Set" -> "set"
      [] w = "Technical" -> "technical"
      [] w = "Tools" -> "tools"
      [] OTHER -> LowerChar(w)

\* text.split(): the runs of non-whitespace atoms
RECURSIVE SplitWhitespace(_, _)
SplitWhitespace(text, i) ==
    LET from == SpacesEnd(text, i)
        to == CHOOSE j \in from..(Len(text) + 1) :
                  /\ At(text, j) \in Spaces \cup {"<end>"}
                  /\ \A k \in from..(j - 1) : text[k] \notin Spaces
    IN  IF from > Len(text) THEN <<>>
        ELSE <<SubSeq(text, from, to - 1)>> \o SplitWhitespace(text, to)

\* " ".join(words)
RECURSIVE JoinSpace(_)
JoinSpace(words) ==
    IF words = <<>> THEN <<>>
    ELSE IF Len(words) = 1 THEN words[1]
    ELSE words[1] \o <<" ">> \o JoinSpace(Tail(words))

\* normalized_text = " ".join(text.split())
Normalize(text) == JoinSpace(SplitWhitespace(text, 1))

\* a header keyword matches at index i, ignoring case
KeywordAt(text, keyword, i) ==
    /\ i + Len(keyword) - 1 <= Len(text)
    /\ \A k \in 1..Len(keyword) : LowerWord(text[i + k - 1]) = keyword[k]

\* the pattern tried at index i: (?:header|...)\s*[:\-]\s*(.+)
SkillsMatchAt(text, i) ==
    LET matching == {k \in DOMAIN header_keywords : KeywordAt(text, header_keywords[k], i)}
        keyword == header_keywords[CHOOSE k \in matching : \A l \in matching : k <= l]
        sep_at == SpacesEnd(text, i + Len(keyword))
        rest_at == SpacesEnd(text, sep_at + 1)
        \* (.+) needs one character: \s* gives the last one back if it took all
        group_at == IF rest_at > Len(text) /\ rest_at > sep_at + 1 THEN Len(text) ELSE rest_at
    IN  IF matching = {} THEN [ok |-> FALSE]
        ELSE [ok |-> At(text, sep_at) \in {":", "-"} /\ group_at <= Len(text),
              group |-> SubSeq(text, group_at, Len(text))]

\* re.findall(pattern, normalized_text, re.IGNORECASE): normalized_text has no
\* newline, (.+) runs to its end, so the leftmost match is the only one
SkillsFindAll(text) ==
    LET found == {i \in DOMAIN text : SkillsMatchAt(text, i).ok}
    IN  IF found = {} THEN <<>>
        ELSE <<SkillsMatchAt(text, CHOOSE i \in found : \A j \in found : i <= j).group>>

\* re.split(r'[,;\n]', match)
RECURSIVE SplitDelimiters(_)
SplitDelimiters(s) ==
    IF \E i \in DOMAIN s : s[i] \in {",", ";", "\n"}
    THEN LET first == CHOOSE i \in DOMAIN s :
                         /\ s[i] \in {",", ";", "\n"}
                         /\ \A j \in 1..(i - 1) : s[j] \notin {",", ";", "\n"}
         IN  <<SubSeq(s, 1, first - 1)>> \o SplitDelimiters(SubSeq(s, first + 1, Len(s)))
    ELSE <<s>>

\* part.strip()
RECURSIVE StripWhitespace(_)
StripWhitespace(s) ==
    IF s # <<>> /\ Head(s) \in Spaces THEN StripWhitespace(Tail(s))
    ELSE IF s # <<>> /\ s[Len(s)] \in Spaces THEN StripWhitespace(SubSeq(s, 1, Len(s) - 1))
    ELSE s

\* the set of the skills list: list(set(skills))
extract_skills_from_text(text) ==
    LET normalized_text == Normalize(text)
        matches == SkillsFindAll(normalized_text)
        parts == IF matches = <<>> THEN <<>> ELSE SplitDelimiters(matches[1])
        skills == {StripWhitespace(parts[i]) : i \in DOMAIN parts} \ {<<>>}
    IN  [fn |-> "extract_skills_from_text", normalized_text |-> normalized_text,
         matches |-> matches, skills |-> skills]

\* pieces a text is made of
SkillsPieces ==
    { <<"Technical", " ", "Skills", ":", " ">>,
      <<"Python", ",", " ", "Go", ";", " ", "Rust">>,
      <<"\n">>,
      <<"Other", " ", "text">>,
      <<"Tools", " ", "-">>,
      <<"Skills">>,
      <<",", " ", " ">>,
      <<"\n", "Tools", ":", " ", "Go", ",", " ", "SQL">> }

RECURSIVE Concat(_)
Concat(pieces) == IF pieces = <<>> THEN <<>> ELSE Head(pieces) \o Concat(Tail(pieces))

SkillsCalls ==
    { [fn |-> "extract_skills_from_text", pieces |-> pieces, text |-> Concat(pieces)] :
        pieces \in SeqsUpTo(SkillsPieces, MaxPieces) }

InitSkills == call \in SkillsCalls /\ ret = NoRet /\ SessionInit

CallSkills ==
    /\ call.fn = "extract_skills_from_text"
    /\ ret = NoRet
    /\ ret' = extract_skills_from_text(call.text)
    /\ UNCHANGED <<call, session>>

SpecSkills == InitSkills /\ [][CallSkills]_vars

(***************************************************************************)
(* extract_emails, on texts of one-character atoms                         *)
(***************************************************************************)
\* [a-zA-Z]
Letters == {LowerLetters[i] : i \in DOMAIN LowerLetters} \cup {UpperLetters[i] : i \in DOMAIN UpperLetters}
\* [a-zA-Z0-9._%+-]
LocalChars == Letters \cup Digits \cup {".", "_", "%", "+", "-"}
\* [a-zA-Z0-9.-]
DomainChars == Letters \cup Digits \cup {".", "-"}

\* the first index from i on that does not hold a character of the class
RECURSIVE RunEnd(_, _, _)
RunEnd(text, i, class) == IF At(text, i) \in class THEN RunEnd(text, i + 1, class) ELSE i

\* email_pattern tried at index i; the greedy domain loop gives characters back
\* until what follows is \.\s*[a-zA-Z]{2,}: the last such dot is taken
EmailMatchAt(text, i) ==
    LET local_end == RunEnd(text, i, LocalChars \cup Spaces)
        domain_at == SpacesEnd(text, local_end + 1)
        domain_end == RunEnd(text, domain_at, DomainChars \cup Spaces)
        TldAt(dot) == SpacesEnd(text, dot + 1)
        dots == {dot \in (domain_at + 1)..(domain_end - 1) :
                    /\ text[dot] = "."
                    /\ RunEnd(text, TldAt(dot), Letters) - TldAt(dot) >= 2}
        last_dot == CHOOSE dot \in dots : \A other \in dots : other <= dot
    IN  IF /\ At(text, i) \in LocalChars
           /\ At(text, local_end) = "@"
           /\ At(text, domain_at) \in DomainChars
           /\ dots # {}
        THEN [ok |-> TRUE,
              match |-> SubSeq(text, i, RunEnd(text, TldAt(last_dot), Letters) - 1),
              next |-> RunEnd(text, TldAt(last_dot), Letters)]
        ELSE [ok |-> FALSE]

\* re.findall(email_pattern, text) from index i on
RECURSIVE FindEmails(_, _)
FindEmails(text, i) ==
    IF i > Len(text) THEN <<>>
    ELSE LET m == EmailMatchAt(text, i)
         IN  IF m.ok THEN <<m.match>> \o FindEmails(text, m.next)
             ELSE FindEmails(text, i + 1)

\* re.sub(r'\s+', '', match)
RemoveWhitespace(match) == SelectSeq(match, LAMBDA c : c \notin Spaces)

\* the list returned
extract_emails(text) ==
    LET matches == FindEmails(text, 1)
    IN  [fn |-> "extract_emails", matches |-> matches,
         emails |-> [k \in DOMAIN matches |-> RemoveWhitespace(matches[k])]]

\* pieces a text is made of
EmailPieces ==
    { <<"a", "@", "b", ".", "c", "o">>,
      <<"x", "@", "b", ".", "c", "o">>,
      <<"a", " ", "@", "b", ".", " ", "c", "o">>,
      <<".", "u", "k">>,
      <<"a">>,
      <<" ">>,
      <<"\n">>,
      <<",">> }

EmailCalls ==
    { [fn |-> "extract_emails", pieces |-> pieces, text |-> Concat(pieces)] :
        pieces \in SeqsUpTo(EmailPieces, MaxEmailPieces) }

InitEmails == call \in EmailCalls /\ ret = NoRet /\ SessionInit

CallEmails ==
    /\ call.fn = "extract_emails"
    /\ ret = NoRet
    /\ ret' = extract_emails(call.text)
    /\ UNCHANGED <<call, session>>

SpecEmails == InitEmails /\ [][CallEmails]_vars

(***************************************************************************)
(* ordinal (utils.py, and the identical copy of resumebotai.py)            *)
(***************************************************************************)
ordinal_by_last_digit(n) ==
    LET suffix == IF n % 10 = 1 THEN "st"
                  ELSE IF n % 10 = 2 THEN "nd"
                  ELSE IF n % 10 = 3 THEN "rd"
                  ELSE "th"
    IN  [fn |-> "ordinal", suffix |-> suffix, label |-> Append(IntStr(n), suffix)]

\* f"{n}{suffix}": the digits of n, then the suffix as one atom
ordinal(n) ==
    LET suffix == IF 11 <= (n % 100) /\ (n % 100) <= 13 THEN "th"
                  ELSE IF n % 10 = 1 THEN "st"
                  ELSE IF n % 10 = 2 THEN "nd"
                  ELSE IF n % 10 = 3 THEN "rd"
                  ELSE "th"
    IN  [fn |-> "ordinal", suffix |-> suffix, label |-> Append(IntStr(n), suffix)]

\* the calls of the ranking display: for i, result in enumerate(results, start=1)
OrdinalCalls == { [fn |-> "ordinal", n |-> n] : n \in 1..MaxOrdinal }

InitOrdinal == call \in OrdinalCalls /\ ret = NoRet /\ SessionInit

CallOrdinal ==
    /\ call.fn = "ordinal"
    /\ ret = NoRet
    /\ ret' = ordinal(call.n)
    /\ UNCHANGED <<call, session>>

SpecOrdinal == InitOrdinal /\ [][CallOrdinal]_vars

(***************************************************************************)
(* analyze_similarity (resumebotai.py): the parse of the language model's  *)
(* response.  The response is given line by line, as result.splitlines()   *)
(* yields it; a line is a sequence of atoms, words being single atoms.     *)
(***************************************************************************)
\* [line.strip() for line in result.strip().splitlines() if line.strip()]
RECURSIVE StrippedLines(_)
StrippedLines(result_lines) ==
    IF result_lines = <<>> THEN <<>>
    ELSE (IF StripWhitespace(Head(result_lines)) # <<>>
          THEN <<StripWhitespace(Head(result_lines))>> ELSE <<>>)
         \o StrippedLines(Tail(result_lines))

\* re.match(r'^\d+(\.\d+)?\|.+\|.*$', line)
IsSummaryLine(line) ==
    LET int_end == DigitsEnd(line, 1)
        has_frac == At(line, int_end) = "." /\ At(line, int_end + 1) \in Digits
        num_end == IF has_frac THEN DigitsEnd(line, int_end + 1) ELSE int_end
    IN  /\ At(line, 1) \in Digits
        /\ At(line, num_end) = "|"
        /\ \E bar \in (num_end + 2)..Len(line) : line[bar] = "|"

\* for line in reversed(lines): the last line that matches, "" if none does
SummaryLine(lines) ==
    LET matching == {k \in DOMAIN lines : IsSummaryLine(lines[k])}
    IN  IF matching = {} THEN <<>>
        ELSE lines[CHOOSE k \in matching : \A l \in matching : l <= k]

\* str.split('|')
RECURSIVE SplitBar(_)
SplitBar(s) ==
    IF \E i \in DOMAIN s : s[i] = "|"
    THEN LET first == CHOOSE i \in DOMAIN s : s[i] = "|" /\ \A j \in 1..(i - 1) : s[j] # "|"
         IN  <<SubSeq(s, 1, first - 1)>> \o SplitBar(SubSeq(s, first + 1, Len(s)))
    ELSE <<s>>

\* float(text) of digits with an optional fraction; anything else raises
IsFloatText(text) ==
    LET int_end == DigitsEnd(text, 1)
        has_frac == At(text, int_end) = "." /\ At(text, int_end + 1) \in Digits
        num_end == IF has_frac THEN DigitsEnd(text, int_end + 1) ELSE int_end
    IN  At(text, 1) \in Digits /\ num_end = Len(text) + 1
FloatOf(text) ==
    LET int_end == DigitsEnd(text, 1)
        frac_len == IF int_end <= Len(text) THEN Len(text) - int_end ELSE 0
    IN  Rat(DigitRun(text, 1, 0) * Pow10(frac_len)
              + (IF frac_len > 0 THEN DigitRun(text, int_end + 1, 0) ELSE 0),
            Pow10(frac_len))

\* try: score = float(parts[0].strip()) except: score = 0.0
ScoreOfPart(part) ==
    IF IsFloatText(StripWhitespace(part)) THEN FloatOf(StripWhitespace(part)) ELSE Rat(0, 1)

\* the tuple returned for the response groq_call gave
analyze_similarity(result_lines) ==
    LET lines == StrippedLines(result_lines)
        summary_line == SummaryLine(lines)
        explanation == IF summary_line # <<>> THEN SubSeq(lines, 1, Len(lines) - 1) ELSE lines
        parts == IF summary_line # <<>> THEN SplitBar(summary_line) ELSE <<>>
    IN  IF Len(parts) >= 3
        THEN [fn |-> "analyze_similarity",
              score |-> ScoreOfPart(parts[1]),
              category |-> StripWhitespace(parts[2]),
              resonant_skill |-> IF StripWhitespace(parts[3]) # <<>>
                                 THEN StripWhitespace(parts[3]) ELSE None,
              explanation |-> explanation]
        ELSE [fn |-> "analyze_similarity",
              score |-> Rat(0, 1), category |-> <<"Worst">>, resonant_skill |-> None,
              explanation |-> explanation]

\* lines of a response
ResponseLines ==
    { <<"8", "5", "|", "Good", "|", "Python">>,
      <<"1", "5", "0", "|", "Best", "|", "Python">>,
      <<" ", "7", ".", "5", "|", " ", "Bad", " ", "|", " ">>,
      <<"9", "0", "|", "Good">>,
      <<"x", "|", "Good", "|", "Go">>,
      <<"4", "0", "|", "|", "Go">>,
      <<"Reasoning">>,
      <<" ">> }

AnalyzeCalls ==
    { [fn |-> "analyze_similarity", result |-> result] :
        result \in SeqsUpTo(ResponseLines, MaxResponseLines) }

InitAnalyze == call \in AnalyzeCalls /\ ret = NoRet /\ SessionInit

CallAnalyze ==
    /\ call.fn = "analyze_similarity"
    /\ ret = NoRet
    /\ ret' = analyze_similarity(call.result)
    /\ UNCHANGED <<call, session>>

SpecAnalyze == InitAnalyze /\ [][CallAnalyze]_vars

(***************************************************************************)
(* Properties of the scorer                                                *)
(***************************************************************************)
\* start positions of sub in text
MatchPositions(text, sub) == {i \in 1..(Len(text) + 1) : MatchAt(text, sub, i)}

\* the largest number of pairwise non-overlapping occurrences of sub in text
Occurrences(text, sub) ==
    LET P == MatchPositions(text, sub)
        Apart(S) == \A i \in S : \A j \in S : i < j => j - i >= Len(sub)
        Sizes == {Cardinality(S) : S \in {T \in SUBSET P : Apart(T)}}
    IN  CHOOSE m \in Sizes : \A k \in Sizes : k <= m

\* skill occurs in text as a case-insensitive substring
OccursIn(skill, text) ==
    \E i \in 1..(Len(text) + 1) :
        /\ i + Len(skill) - 1 <= Len(text)
        /\ \A k \in 1..Len(skill) : LowerChar(text[i + k - 1]) = LowerChar(skill[k])

\* the integer part of each years argument of YearsStrs
YearsValue(s) ==
    CASE s = <<"N", "o", "n", "e">> -> 0
      [] s = <<>> -> 0
      [] s = <<"0">> -> 0
      [] s = <<"2">> -> 2
      [] s = <<"4">> -> 4
      [] s = <<"5">> -> 5
      [] s = <<"2", ".", "5">> -> 2
      [] s = <<"-", "2">> -> 2

ScoreReturned == ret.fn = "calculate_similarity_score"
NoSkillOccurs ==
    \A i \in DOMAIN call.jd_key_skills : ~OccursIn(call.jd_key_skills[i], call.resume_text)

\* C1: for every input calculate_similarity_score returns a score s with
\* 0 <= s <= 100.
C1_ScoreInRange ==
    ScoreReturned =>
        /\ ret.score.d > 0
        /\ RLeq(Rat(0, 1), ret.score)
        /\ RLeq(ret.score, Rat(100, 1))

\* a call with candidate years above the requirement and every skill at the cap
\* returns the upper end of the range
C1_Witness ==
    /\ ScoreReturned
    /\ call.jd_key_skills # <<>>
    /\ YearsValue(call.resume_years) > YearsValue(call.jd_years)
    /\ REq(ret.score, Rat(100, 1))

\* C2: zero-evidence gate: with a non-empty required-skill list none of whose
\* skills occurs case-insensitively in the resume text, the score is exactly 0,
\* whatever the years are.
C2_ZeroEvidenceGate ==
    (ScoreReturned /\ call.jd_key_skills # <<>> /\ NoSkillOccurs) => ret.score.n = 0

\* the gate fires although the experience component would be 100
C2_Witness ==
    /\ ScoreReturned
    /\ call.jd_key_skills # <<>>
    /\ NoSkillOccurs
    /\ call.resume_text # <<>>
    /\ YearsValue(call.jd_years) = 0
    /\ ret.score.n = 0

\* C5: the experience component is 100 when required = 0, 100 when
\* candidate >= required, and candidate / required * 100 otherwise, on the
\* integer parts of the two years arguments.
C5_ExperienceComponent ==
    (ScoreReturned /\ ~ret.gated) =>
        LET c == YearsValue(call.resume_years)
            r == YearsValue(call.jd_years)
        IN  /\ ret.candidate_years = c
            /\ ret.required_years = r
            /\ ret.exp_score.d > 0
            /\ r = 0 => REq(ret.exp_score, Rat(100, 1))
            /\ c >= r => REq(ret.exp_score, Rat(100, 1))
            /\ (r # 0 /\ c < r) => REq(ret.exp_score, Rat(c * 100, r))
            /\ (c = 5 /\ r = 5) => REq(ret.exp_score, Rat(100, 1))
            /\ (c = 2 /\ r = 4) => REq(ret.exp_score, Rat(50, 1))

\* candidate 2.5 years against 4 required: component 50
C5_Witness ==
    /\ ScoreReturned
    /\ ~ret.gated
    /\ call.resume_years = <<"2", ".", "5">>
    /\ call.jd_years = <<"4">>
    /\ REq(ret.exp_score, Rat(50, 1))

\* C6: the skills component is (sum of min(3, occurrences of the lower-cased
\* skill in the lower-cased text)) / (3 * n) * 100 for n >= 1 required skills,
\* and 0, without a division by zero, for an empty list.
C6_SkillsComponent ==
    (ScoreReturned /\ ~ret.gated) =>
        LET skills == call.jd_key_skills
            n == Len(skills)
            capped == [i \in DOMAIN skills |->
                          Min(3, Occurrences(Lower(call.resume_text), Lower(skills[i])))]
        IN  /\ ret.skills_score.d > 0
            /\ n >= 1 => REq(ret.skills_score, Rat(SumSeq(capped) * 100, 3 * n))
            /\ n = 0 => ret.skills_score.n = 0

\* a skill occurring more than 3 times counts 3
C6_Witness ==
    /\ ScoreReturned
    /\ ~ret.gated
    /\ \E i \in DOMAIN call.jd_key_skills :
           Occurrences(Lower(call.resume_text), Lower(call.jd_key_skills[i])) > 3
    /\ Len(call.jd_key_skills) = 1
    /\ REq(ret.skills_score, Rat(100, 1))

\* C7: when the gate does not fire the score is 0.4 * experience component +
\* 0.6 * skills component, and this sum is at most 100, so the clamp leaves it
\* unchanged.
C7_WeightedSum ==
    (ScoreReturned /\ ~ret.gated) =>
        LET weighted == Rat(4 * ret.exp_score.n * ret.skills_score.d
                              + 6 * ret.skills_score.n * ret.exp_score.d,
                            10 * ret.exp_score.d * ret.skills_score.d)
        IN  /\ REq(ret.score, weighted)
            /\ REq(ret.overall_score, weighted)
            /\ RLeq(weighted, Rat(100, 1))

\* both components below 100 and different from each other
C7_Witness ==
    /\ ScoreReturned
    /\ ~ret.gated
    /\ REq(ret.exp_score, Rat(50, 1))
    /\ REq(ret.skills_score, Rat(100, 3))
    /\ REq(ret.score, Rat(40, 1))

(***************************************************************************)
(* Properties of the category                                              *)
(***************************************************************************)
\* C3: get_similarity_category maps a score to exactly one of six labels by
\* inclusive lower bounds: >= 90 Best, >= 70 Better, >= 50 Good, >= 30 Average,
\* >= 10 Bad, else Worst; 90.0 is Best, 89.9 Better, 70.0 Better, 69.9 Good.
C3_CategoryThresholds ==
    ret.fn = "get_similarity_category" =>
        LET k == call.score.n
            c == ret.category
        IN  /\ call.score.d = 10
            /\ (c = "Best") <=> (k >= 900)
            /\ (c = "Better") <=> (700 <= k /\ k < 900)
            /\ (c = "Good") <=> (500 <= k /\ k < 700)
            /\ (c = "Average") <=> (300 <= k /\ k < 500)
            /\ (c = "Bad") <=> (100 <= k /\ k < 300)
            /\ (c = "Worst") <=> (k < 100)
            /\ k = 900 => c = "Best"
            /\ k = 899 => c = "Better"
            /\ k = 700 => c = "Better"
            /\ k = 699 => c = "Good"

\* the boundary score 90.0
C3_Witness ==
    /\ ret.fn = "get_similarity_category"
    /\ call.score = Rat(900, 10)
    /\ ret.category = "Best"

(***************************************************************************)
(* Properties of the resonant skill                                        *)
(***************************************************************************)
ResonantReturned == ret.fn = "get_resonant_skill"
Occ(i) == Occurrences(Lower(call.resume_text), Lower(call.jd_key_skills[i]))

\* C8: get_resonant_skill returns the required skill (in its lower-cased form)
\* with the highest uncapped occurrence count, the first of them in list order
\* on a tie, and none when every count is zero or the list is empty.
C8_ResonantSelection ==
    ResonantReturned =>
        LET D == DOMAIN call.jd_key_skills
        IN  IF \A i \in D : Occ(i) = 0
            THEN ret.resonant_skill = None
            ELSE \E i \in D :
                    /\ \A j \in D : Occ(j) <= Occ(i)
                    /\ \A j \in D : j < i => Occ(j) < Occ(i)
                    /\ ret.resonant_skill = Lower(call.jd_key_skills[i])

\* two different skills tie on the highest count and the first is returned
C8_Witness ==
    /\ ResonantReturned
    /\ Len(call.jd_key_skills) = 2
    /\ Occ(1) = Occ(2)
    /\ Occ(1) > 1
    /\ Lower(call.jd_key_skills[1]) # Lower(call.jd_key_skills[2])
    /\ ret.resonant_skill = Lower(call.jd_key_skills[1])

\* C9: a resonant skill that is not none is one of the required-skill strings
\* exactly as the caller supplied it (case preserved).
C9_ResonantSkillAsSupplied ==
    (ResonantReturned /\ ret.resonant_skill # None) =>
        \E i \in DOMAIN call.jd_key_skills : ret.resonant_skill = call.jd_key_skills[i]

(***************************************************************************)
(* Properties of the ranking                                               *)
(***************************************************************************)
Bijections(D) == {p \in [D -> D] : \A i, j \in D : i # j => p[i] # p[j]}
HasScores(results, a, b, c) ==
    /\ Len(results) = 3
    /\ REq(results[1].score, Rat(a, 1))
    /\ REq(results[2].score, Rat(b, 1))
    /\ REq(results[3].score, Rat(c, 1))

\* C4: the ranking of the score step is a permutation of the scored results in
\* descending score order in which results of equal score keep their input
\* order; input scores [50, 80, 50] come out as [80 (idx1), 50 (idx0), 50 (idx2)].
C4_RankingStableDescending ==
    view = "ranking" =>
        /\ Len(ranking) = Len(scored)
        /\ \E p \in Bijections(DOMAIN scored) :
               /\ \A k \in DOMAIN ranking : ranking[k] = scored[p[k]]
               /\ \A k, l \in DOMAIN ranking :
                      k < l => /\ RLeq(ranking[l].score, ranking[k].score)
                               /\ REq(ranking[l].score, ranking[k].score) => p[k] < p[l]
        /\ HasScores(scored, 50, 80, 50) => ranking = <<scored[2], scored[1], scored[3]>>

\* three resumes scored 50, 80, 50 in upload order
C4_Witness ==
    /\ view = "ranking"
    /\ matcher_type = MultiResume
    /\ HasScores(scored, 50, 80, 50)
    /\ scored[1].file_name # scored[3].file_name
    /\ ranking = <<scored[2], scored[1], scored[3]>>

(***************************************************************************)
(* Properties of extract_years_experience                                  *)
(***************************************************************************)
YearsReturned == ret.fn = "extract_years_experience"

\* the numbers directly followed by year(s)/yr(s) in a text of these lines: the
\* number a line states, and the closing year of a date range when the next
\* line starts with the unit word
StatedOnLine(lines, i) ==
    CASE lines[i] = ThreeYears -> {Rat(3, 1)}
      [] lines[i] = SevenPlusYears -> {Rat(7, 1)}
      [] lines[i] = DecimalYrs -> {Rat(237, 100)}
      [] lines[i] = DottedYears -> {Rat(71, 10)}
      [] lines[i] = Yrs /\ i > 1 /\ lines[i - 1] \in {Range2019To2020, RangeUnparseable}
            -> {Rat(2020, 1)}
      [] lines[i] = Yrs /\ i > 1 /\ lines[i - 1] = RangeReversed -> {Rat(2019, 1)}
      [] OTHER -> {}
StatedNumbers(lines) == UNION {StatedOnLine(lines, i) : i \in DOMAIN lines}
HasLine(line) == \E i \in DOMAIN call.lines : call.lines[i] = line
Abs(x) == IF x < 0 THEN -x ELSE x
\* the date-range lines of a text whose closing year is not read as a number of
\* years, and the text without them
PlainRange(lines, i) ==
    lines[i] \in DateRangeLines /\ ~(i < Len(lines) /\ lines[i + 1] = Yrs)
RECURSIVE WithoutPlainRanges(_, _)
WithoutPlainRanges(lines, i) ==
    IF i > Len(lines) THEN <<>>
    ELSE (IF PlainRange(lines, i) THEN <<>> ELSE <<lines[i]>>)
         \o WithoutPlainRanges(lines, i + 1)

\* C10: when the text holds one or more explicit "<number> year(s)/yr(s)"
\* statements, the result is the maximum of the matched numbers rounded to one
\* decimal ("3 years" with "7+ years" gives 7.0); the date-range tier does not
\* contribute, and the result is the one the text gives without its date
\* ranges.
C10_ExplicitMaximum ==
    (YearsReturned /\ StatedNumbers(call.lines) # {}) =>
        /\ ret.tier = "explicit"
        /\ ret.years.d = 10
        /\ \E m \in StatedNumbers(call.lines) :
              /\ \A x \in StatedNumbers(call.lines) : RLeq(x, m)
              /\ 2 * Abs(10 * m.n - ret.years.n * m.d) <= m.d
        /\ (/\ HasLine(ThreeYears) /\ HasLine(SevenPlusYears)
            /\ ~HasLine(DottedYears) /\ ~HasLine(Yrs))
              => ret.years = Rat(70, 10)
        /\ \A now \in Nows : extract_years_experience(call.text, now) = ret
        /\ ret.years =
              extract_years_experience(
                  JoinLines(WithoutPlainRanges(call.lines, 1)), call.now).years

\* "3 years" and "7+ years" next to a date range that parses: 7.0 is returned
C10_Witness ==
    /\ YearsReturned
    /\ HasLine(ThreeYears)
    /\ HasLine(SevenPlusYears)
    /\ \E i \in DOMAIN call.lines :
          /\ call.lines[i] \in DateRangeLines
          /\ ParsedIntervals(FindDates(call.lines[i], 1), call.now) # <<>>
    /\ ret.years = Rat(70, 10)

\* the parsed ranges of a date-range call, and the days their union covers
DatesReturned == YearsReturned /\ ret.tier = "dates"
WellOrdered(intervals) == \A i \in DOMAIN intervals : intervals[i].start <= intervals[i].end
Starts(intervals) == {intervals[i].start : i \in DOMAIN intervals}
Ends(intervals) == {intervals[i].end : i \in DOMAIN intervals}
Earliest(days) == CHOOSE d \in days : \A e \in days : d <= e
Latest(days) == CHOOSE d \in days : \A e \in days : d >= e
CoveredDays(intervals) ==
    { d \in Earliest(Starts(intervals))..(Latest(Ends(intervals)) - 1) :
        \E i \in DOMAIN intervals : intervals[i].start <= d /\ d < intervals[i].end }

\* C11: for parsed ranges with start <= end, the day count summed over the
\* merged intervals is the number of days the union of the ranges covers
\* (overlapping or touching ranges once, gaps not at all), and the merged
\* intervals are pairwise disjoint and sorted by start.
C11_MergedUnion ==
    (DatesReturned /\ WellOrdered(ret.intervals)) =>
        /\ ret.total_days = Cardinality(CoveredDays(ret.intervals))
        /\ ret.total_days =
              SumSeq([i \in DOMAIN ret.merged_intervals |->
                         ret.merged_intervals[i].end - ret.merged_intervals[i].start])
        /\ \A i, j \in DOMAIN ret.merged_intervals :
              i < j => ret.merged_intervals[i].end < ret.merged_intervals[j].start

\* three ranges: one nested in another and merged with it, the third after a gap
C11_Witness ==
    /\ DatesReturned
    /\ WellOrdered(ret.intervals)
    /\ Len(ret.intervals) = 3
    /\ Len(ret.merged_intervals) = 2
    /\ \E i, j \in DOMAIN ret.intervals :
          /\ i # j
          /\ ret.intervals[i].start < ret.intervals[j].start
          /\ ret.intervals[j].end < ret.intervals[i].end

\* C12: extract_years_experience never returns a negative number: the result
\* is unknown (None) or a value >= 0, in whatever order the bounds of a range
\* appear.
C12_NeverNegative ==
    (YearsReturned /\ ret.tier # "None") => ret.years.n >= 0

\* the lines of a text with a bound that cannot be parsed, and the text without
UnparseableLines == {UnparseableStartLine, UnparseableEndLine}
IsParseableLine(line) == line \notin UnparseableLines

\* C20: a matched date range whose start or end cannot be parsed is skipped
\* without an error, and the result is the one the remaining ranges give, as
\* if the unparseable range were absent from the text.
C20_UnparseableSkipped ==
    YearsReturned =>
        LET kept == SelectSeq(call.lines, IsParseableLine)
        IN  /\ ret = extract_years_experience(JoinLines(kept), call.now)
            /\ (kept = <<>>) = (ret.tier = "None")
            /\ ret.tier = "dates" => Len(ret.intervals) = Len(kept)

\* an unparseable range before a parseable one: the parseable one is counted
C20_Witness ==
    /\ YearsReturned
    /\ Len(call.lines) >= 2
    /\ call.lines[1] \in UnparseableLines
    /\ \E i \in DOMAIN call.lines : call.lines[i] \notin UnparseableLines
    /\ ret.tier = "dates"
    /\ ret.years.n > 0

(***************************************************************************)
(* Properties of extract_skills_from_text                                  *)
(***************************************************************************)
SkillsReturned == ret.fn = "extract_skills_from_text"
\* "Technical Skills: Python, Go; Rust\nOther text"
SkillsExampleText ==
    <<"Technical", " ", "Skills", ":", " ", "Python", ",", " ", "Go", ";", " ", "Rust",
      "\n", "Other", " ", "text">>

\* C13: on "Technical Skills: Python, Go; Rust" followed by a newline and
\* "Other text", extract_skills_from_text returns exactly {Python, Go, Rust}:
\* the text of the next line is part of no returned skill.
C13_SkillsExample ==
    (SkillsReturned /\ call.text = SkillsExampleText) =>
        ret.skills = {<<"Python">>, <<"Go">>, <<"Rust">>}

(***************************************************************************)
(* Properties of extract_emails                                            *)
(***************************************************************************)
EmailsReturned == ret.fn = "extract_emails"

\* C14: extract_emails returns a set: once whitespace is removed from each
\* match, no address appears more than once in the result, even when the text
\* holds the same address several times.
C14_EmailsDistinct ==
    EmailsReturned =>
        \A i, j \in DOMAIN ret.emails : i # j => ret.emails[i] # ret.emails[j]

(***************************************************************************)
(* Properties of ordinal                                                   *)
(***************************************************************************)
OrdinalReturned == ret.fn = "ordinal"
\* the suffix by the last two digits and the last digit of n
ExpectedSuffix(n) ==
    CASE n % 100 \in {11, 12, 13} -> "th"
      [] n % 100 \notin {11, 12, 13} /\ n % 10 = 1 -> "st"
      [] n % 100 \notin {11, 12, 13} /\ n % 10 = 2 -> "nd"
      [] n % 100 \notin {11, 12, 13} /\ n % 10 = 3 -> "rd"
      [] OTHER -> "th"

\* C15: for every n >= 1, the first label of a ranking included, ordinal(n) is
\* n in decimal followed by "th" when n mod 100 is 11, 12 or 13, otherwise by
\* "st", "nd", "rd" when n mod 10 is 1, 2, 3, and by "th" in all other cases.
C15_OrdinalSuffix ==
    OrdinalReturned =>
        LET digits == SubSeq(ret.label, 1, Len(ret.label) - 1)
        IN  /\ call.n >= 1
            /\ ret.label[Len(ret.label)] = ExpectedSuffix(call.n)
            /\ digits # <<>>
            /\ \A k \in DOMAIN digits : digits[k] \in Digits
            /\ Len(digits) > 1 => digits[1] # "0"
            /\ DigitRun(digits, 1, 0) = call.n
            /\ call.n = 1 => ret.label = <<"1", "st">>

\* 112 takes "th" although its last digit is 2
C15_Witness ==
    /\ OrdinalReturned
    /\ call.n = 112
    /\ ret.label = <<"1", "1", "2", "th">>

(***************************************************************************)
(* Properties of the Calculate Score button                                *)
(***************************************************************************)
\* C17: the Calculate Score step, with any override skill list and override
\* years, leaves the stored resumes, the stored JD skill list and years, the
\* stored resume and the jd_list entries as they were.
C17_ScoringFrame ==
    [][view' = "ranking" =>
          /\ resumes' = resumes
          /\ st_jd_key_skills' = st_jd_key_skills
          /\ st_jd_years' = st_jd_years
          /\ resume' = resume
          /\ jd_list' = jd_list]_vars

\* a ranking computed with an override that differs from the stored requirement
C17_Witness ==
    /\ view = "ranking"
    /\ \/ /\ matcher_type = MultiResume
          /\ st_jd_key_skills # <<>>
          /\ \E i \in DOMAIN resumes :
                scored[i] # ScoreOne(resumes[i].file_name, resumes[i].resume_text,
                                     st_jd_key_skills, FloatStr(resumes[i].manual_years),
                                     IntStr(st_jd_years))
       \/ /\ matcher_type = MultiJD
          /\ \E i \in DOMAIN jd_list :
                scored[i] # ScoreOne(jd_list[i].file_name, resume[1].resume_text,
                                     jd_list[i].jd_key_skills,
                                     FloatStr(resume[1].manual_years),
                                     IntStr(jd_list[i].jd_years))

(***************************************************************************)
(* Properties of the scorer on malformed years                             *)
(***************************************************************************)
NoDigit(years_str) == \A i \in DOMAIN years_str : years_str[i] \notin Digits
ZeroIfNoDigit(years_str) == IF NoDigit(years_str) THEN <<"0">> ELSE years_str

\* C18: calculate_similarity_score does not raise on malformed years: a
\* candidate or required years value without a digit (None, the empty string,
\* text) counts as 0, and the score returned is the score for 0.
C18_MalformedYearsAsZero ==
    (ScoreReturned /\ (NoDigit(call.resume_years) \/ NoDigit(call.jd_years))) =>
        /\ NoDigit(call.resume_years) => ret.candidate_years = 0
        /\ NoDigit(call.jd_years) => ret.required_years = 0
        /\ ret.score.d > 0
        /\ RLeq(Rat(0, 1), ret.score) /\ RLeq(ret.score, Rat(100, 1))
        /\ REq(ret.score,
               calculate_similarity_score(call.resume_text, call.jd_key_skills,
                                          ZeroIfNoDigit(call.resume_years),
                                          ZeroIfNoDigit(call.jd_years)).score)

\* candidate years None against a requirement of 4 years: the experience
\* component is 0 and the skills alone give the score
C18_Witness ==
    /\ ScoreReturned
    /\ call.resume_years = <<"N", "o", "n", "e">>
    /\ call.jd_years = <<"4">>
    /\ ~ret.gated
    /\ REq(ret.exp_score, Rat(0, 1))
    /\ RLt(Rat(0, 1), ret.score)

(***************************************************************************)
(* Properties of analyze_similarity                                        *)
(***************************************************************************)
AnalyzeReturned == ret.fn = "analyze_similarity"

\* C19: the score analyze_similarity returns lies in [0, 100] for every
\* response of the language model, a summary line with a number above 100
\* included.
C19_AnalyzeScoreInRange ==
    AnalyzeReturned =>
        /\ ret.score.d > 0
        /\ RLeq(Rat(0, 1), ret.score)
        /\ RLeq(ret.score, Rat(100, 1))

\* "Technical Skills: Python, Go; Rust\nTools: Go, SQL"
TwoSectionsText ==
    <<"Technical", " ", "Skills", ":", " ", "Python", ",", " ", "Go", ";", " ", "Rust",
      "\n", "Tools", ":", " ", "Go", ",", " ", "SQL">>
\* a header phrase followed by ':' or '-' stands somewhere in the skill
HoldsHeader(skill) ==
    \E i \in DOMAIN skill :
        /\ \E k \in DOMAIN header_keywords : KeywordAt(skill, header_keywords[k], i)
        /\ \E j \in (i + 1)..Len(skill) : skill[j] \in {":", "-"}

\* C21: each header phrase followed by ':' or '-' captures only the text up to
\* the next header phrase or the end of the text: with two header sections the
\* tokens of both are returned, and no returned skill holds a later header
\* phrase or text of a later section merged with an earlier token.
C21_SectionsSeparate ==
    (SkillsReturned /\ call.text = TwoSectionsText) =>
        /\ \A skill \in ret.skills : ~HoldsHeader(skill)
        /\ ret.skills = {<<"Python">>, <<"Go">>, <<"Rust">>, <<"SQL">>}

(***************************************************************************)
(* Properties of the two tiers of extract_years_experience                 *)
(***************************************************************************)
\* the text has a date range both bounds of which parse
HasParseableRange(lines) ==
    \E i \in DOMAIN lines : lines[i] \in DateRangeLines \ {RangeUnparseable}

\* C22: the date-range fallback is used only when the explicit-statement scan
\* finds nothing, and the result is unknown (None) exactly when the text has no
\* explicit statement and no parseable date range.
C22_TierOrder ==
    YearsReturned =>
        /\ (ret.tier = "explicit") = (StatedNumbers(call.lines) # {})
        /\ (ret.tier = "dates") =
              (StatedNumbers(call.lines) = {} /\ HasParseableRange(call.lines))
        /\ (ret.tier = "None") =
              (StatedNumbers(call.lines) = {} /\ ~HasParseableRange(call.lines))

\* no explicit statement, an unparseable range and a parseable one: the
\* fallback gives the year from January 2019 to January 2020
C22_Witness ==
    /\ YearsReturned
    /\ StatedNumbers(call.lines) = {}
    /\ HasLine(RangeUnparseable)
    /\ HasLine(Range2019To2020)
    /\ ret.tier = "dates"
    /\ ret.years = Rat(10, 10)

(***************************************************************************)
(* The loop body of the Calculate Score button on its own: the three calls  *)
(* that make one result record                                             *)
(***************************************************************************)
ScoreOneCalls ==
    [fn : {"ScoreOne"}, file_name : {<<"a", ".", "p", "d", "f">>}, resume_text : Texts,
     jd_key_skills : SkillLists, resume_years : YearsStrs, jd_years : YearsStrs]

InitScoreOne == call \in ScoreOneCalls /\ ret = NoRet /\ SessionInit

CallScoreOne ==
    /\ call.fn = "ScoreOne"
    /\ ret = NoRet
    /\ ret' = [fn |-> "ScoreOne",
               result |-> ScoreOne(call.file_name, call.resume_text, call.jd_key_skills,
                                   call.resume_years, call.jd_years)]
    /\ UNCHANGED <<call, session>>

SpecScoreOne == InitScoreOne /\ [][CallScoreOne]_vars

ScoreOneReturned == ret.fn = "ScoreOne"

\* C23: whenever the zero-evidence gate fires for a resume (non-empty required
\* skills, none present in the text), the record made for that resume has
\* score 0, category "Worst" and no resonant skill.
C23_GateRecord ==
    (ScoreOneReturned /\ call.jd_key_skills # <<>> /\ NoSkillOccurs) =>
        /\ ret.result.score.n = 0
        /\ ret.result.category = "Worst"
        /\ ret.result.resonant_skill = None

\* the gate fires for a non-empty resume whose years meet the requirement
C23_Witness ==
    /\ ScoreOneReturned
    /\ Len(call.jd_key_skills) = 2
    /\ NoSkillOccurs
    /\ call.resume_text # <<>>
    /\ YearsValue(call.resume_years) >= YearsValue(call.jd_years)
    /\ YearsValue(call.jd_years) > 0
    /\ ret.result.score.n = 0
    /\ ret.result.category = "Worst"
    /\ ret.result.resonant_skill = None

(***************************************************************************)
(* The score step's override widgets on their own: what the Scorer is      *)
(* called with for one resume and one requirement                          *)
(***************************************************************************)
MaxTags == 2
\* tags typed into an override widget
OverrideTags == {<<" ">>, <<",", " ">>, <<"x", ",", " ", "P">>, <<" ", "g", " ">>, <<"P">>}

ScoreStepCalls ==
    [fn : {"score_step"}, matcher_type : MatcherTypes,
     resume_text : {<<"P">>, <<"P", "g">>}, manual_years : {40},
     jd_key_skills : SkillLists, jd_years : YearsInputs,
     override_keywords : SeqsUpTo(OverrideTags, MaxTags), override_years : YearsInputs]

InitScoreStep == call \in ScoreStepCalls /\ ret = NoRet /\ SessionInit

\* the arguments of calculate_similarity_score and the record made from them
CallScoreStep ==
    /\ call.fn = "score_step"
    /\ ret = NoRet
    /\ LET override_processed_keywords ==
               IF call.matcher_type = MultiResume
               THEN ProcessKeywords(call.override_keywords)
               ELSE StripNonEmpty(call.override_keywords)
           used_jd_skills == OverrideOrCurrent(override_processed_keywords,
                                               call.jd_key_skills)
       IN  ret' = [fn |-> "score_step",
                   jd_key_skills |-> used_jd_skills,
                   resume_years |-> FloatStr(call.manual_years),
                   jd_years |-> IntStr(call.override_years),
                   result |-> ScoreOne(<<"a", ".", "p", "d", "f">>, call.resume_text,
                                       used_jd_skills, FloatStr(call.manual_years),
                                       IntStr(call.override_years))]
    /\ UNCHANGED <<call, session>>

SpecScoreStep == InitScoreStep /\ [][CallScoreStep]_vars

ScoreStepReturned == ret.fn = "score_step"

\* the entries of the override widget as the step reads them: comma-separated
\* and trimmed in the Multi-Resume Matcher, trimmed in the Multi-JD Matcher
OverrideEntries ==
    IF call.matcher_type = MultiResume
    THEN ProcessKeywords(call.override_keywords)
    ELSE StripNonEmpty(call.override_keywords)

\* C24: overrides are plain replacement: with an override skill list and
\* override years supplied in the score step, the Scorer is called with exactly
\* the override's entries and the override years; no stored skill and no stored
\* years value is mixed in.
C24_OverrideReplaces ==
    (ScoreStepReturned /\ OverrideEntries # <<>>) =>
        /\ ret.jd_key_skills = OverrideEntries
        /\ ret.jd_years = IntStr(call.override_years)

\* stored skills "g" and stored years 4 are overridden by the tag "x, P" and 0
\* years in the Multi-Resume Matcher
C24_Witness ==
    /\ ScoreStepReturned
    /\ call.matcher_type = MultiResume
    /\ call.jd_key_skills = <<<<"g">>>>
    /\ call.jd_years = 4
    /\ call.override_keywords = <<<<"x", ",", " ", "P">>>>
    /\ call.override_years = 0
    /\ ret.jd_key_skills = <<<<"x">>, <<"P">>>>
    /\ ret.jd_years = <<"0">>

(***************************************************************************)
(* Properties of the score step's precondition                             *)
(***************************************************************************)
\* at least one resume and at least one job description are stored
InputsStored ==
    IF matcher_type = MultiResume
    THEN resumes # <<>> /\ "jd_text" \in keys
    ELSE resume # <<>> /\ jd_list # <<>>

\* C25: in the score step a ranking is computed, and the score calculation is
\* offered, only when at least one resume and at least one job description are
\* stored; otherwise the step shows the warning.
C25_MissingInputWarned ==
    /\ view \in {"form", "ranking"} => InputsStored
    /\ (step = "score" /\ ~InputsStored) => view = "warning"

(***************************************************************************)
(* A conversation: the chat form is submitted again and again, each call   *)
(* of process_chat_input reading the step the call before it stored        *)
(***************************************************************************)
MaxPad == 1
\* what the user types, to be padded with spaces on both sides
ChatWords ==
    { <<"r", "e", "a", "d", "y">>, <<"R", "e", "a", "d", "y">>, <<"R", "E", "A", "D", "Y">>,
      <<"c", "o", "n", "t", "i", "n", "u", "e">>, <<"C", "o", "n", "t", "i", "n", "u", "e">>,
      <<"u", "p", "l", "o", "a", "d">>, <<"U", "P", "L", "O", "A", "D">>,
      <<"m", "a", "n", "u", "a", "l">>, <<"M", "a", "n", "u", "a", "l">>,
      <<"h", "i">>, <<"r", "e", "a", "d", "y", " ", "n", "o", "w">>, <<"b", "a", "c", "k">> }
Pad(n) == [i \in 1..n |-> " "]
ChatCalls(current_step) ==
    { [fn |-> "process_chat_input", current_step |-> current_step, word |-> w,
       user_message |-> Pad(l) \o w \o Pad(r)] :
          w \in ChatWords, l \in 0..MaxPad, r \in 0..MaxPad }

\* after init_session_state the step is "init"
InitChat == call \in ChatCalls("init") /\ ret = NoRet /\ SessionInit

CallChat ==
    /\ call.fn = "process_chat_input"
    /\ ret = NoRet
    /\ ret' = [fn |-> "process_chat_input",
               step |-> process_chat_input(call.current_step, call.user_message)]
    /\ UNCHANGED <<call, session>>

\* the next submission of the chat form
NextChatMessage ==
    /\ ret.fn = "process_chat_input"
    /\ call' \in ChatCalls(ret.step)
    /\ ret' = NoRet
    /\ UNCHANGED session

SpecChat == InitChat /\ [][CallChat \/ NextChatMessage]_vars

ChatReturned == ret.fn = "process_chat_input"

\* the keyword a typed word is once trimmed and lower-cased
KeywordOf(w) ==
    IF w \in {<<"r", "e", "a", "d", "y">>, <<"R", "e", "a", "d", "y">>,
              <<"R", "E", "A", "D", "Y">>} THEN "ready"
    ELSE IF w \in {<<"c", "o", "n", "t", "i", "n", "u", "e">>,
                   <<"C", "o", "n", "t", "i", "n", "u", "e">>} THEN "continue"
    ELSE IF w \in {<<"u", "p", "l", "o", "a", "d">>, <<"U", "P", "L", "O", "A", "D">>}
    THEN "upload"
    ELSE IF w \in {<<"m", "a", "n", "u", "a", "l">>, <<"M", "a", "n", "u", "a", "l">>}
    THEN "manual"
    ELSE "other"

\* the moves of the workflow, each with its keyword
ChatMoves ==
    { <<"init", "ready", "resume_upload">>,
      <<"resume_upload", "continue", "jd_choice">>,
      <<"jd_choice", "upload", "jd_upload">>,
      <<"jd_choice", "manual", "jd_manual">>,
      <<"jd_upload", "continue", "score">>,
      <<"jd_manual", "continue", "score">> }

StepRank(s) ==
    IF s = "init" THEN 0
    ELSE IF s = "resume_upload" THEN 1
    ELSE IF s = "jd_choice" THEN 2
    ELSE IF s \in {"jd_upload", "jd_manual"} THEN 3
    ELSE 4

\* C26: driven by chat messages alone the step only moves along init ->
\* resume_upload -> jd_choice -> (jd_upload | jd_manual) -> score, each move
\* taken exactly on the trimmed lower-cased keyword of the current step; any
\* other message leaves the step unchanged, the step never moves backwards and
\* score is never left.
C26_ChatStepOrder ==
    ChatReturned =>
        /\ <<call.current_step, KeywordOf(call.word), ret.step>> \in ChatMoves
              \/ /\ ret.step = call.current_step
                 /\ \A t \in Steps :
                       <<call.current_step, KeywordOf(call.word), t>> \notin ChatMoves
        /\ StepRank(ret.step) >= StepRank(call.current_step)
        /\ call.current_step = "score" => ret.step = "score"

\* the padded, capitalised " Continue " moves the conversation from the JD
\* upload step to the score step
C26_Witness ==
    /\ ChatReturned
    /\ call.current_step = "jd_upload"
    /\ call.user_message = <<" ">> \o <<"C", "o", "n", "t", "i", "n", "u", "e">> \o <<" ">>
    /\ ret.step = "score"

\* nothing is left of the override once its entries are trimmed: every tag
\* is made of spaces (and, where tags are split on commas, of commas)
OverrideBlank ==
    \A i \in DOMAIN call.override_keywords :
        \A j \in DOMAIN call.override_keywords[i] :
            call.override_keywords[i][j] \in
                (IF call.matcher_type = MultiResume THEN {" ", ","} ELSE {" "})

\* C27: in the score step an override skill list that is empty after trimming
\* makes the Scorer run with the stored JD skill list; hence with a non-empty
\* stored skill list no override makes the Scorer run with an empty list.
C27_EmptyOverrideFallsBack ==
    ScoreStepReturned =>
        /\ OverrideBlank => ret.jd_key_skills = call.jd_key_skills
        /\ call.jd_key_skills # <<>> => ret.jd_key_skills # <<>>

\* two blank tags in the Multi-JD Matcher: the stored skill "P" is used
C27_Witness ==
    /\ ScoreStepReturned
    /\ call.matcher_type = MultiJD
    /\ call.override_keywords = <<<<" ">>, <<" ">>>>
    /\ call.jd_key_skills = <<<<"P">>>>
    /\ ret.jd_key_skills = <<<<"P">>>>
    /\ ret.result.resonant_skill = <<"p">>

(***************************************************************************)
(* calculate_similarity_score in the arithmetic Python runs it in: every   *)
(* float is an IEEE-754 double, every operation is rounded to the nearest  *)
(* double, ties to even.  A double is [m, e] with value m * 2^e, where m   *)
(* is 0 or has exactly MantissaBits bits.  m is a natural number written   *)
(* in limbs of LimbBits bits, least significant first, <<>> for 0.  The    *)
(* values here are between 0 and 100: no overflow, no subnormals.          *)
(***************************************************************************)
MantissaBits == 53
LimbBits == 14
RECURSIVE Pow2(_)
Pow2(k) == IF k = 0 THEN 1 ELSE 2 * Pow2(k - 1)
LimbBase == Pow2(LimbBits)

RECURSIVE BTrim(_)
BTrim(a) == IF a # <<>> /\ a[Len(a)] = 0 THEN BTrim(SubSeq(a, 1, Len(a) - 1)) ELSE a

RECURSIVE BOfNat(_)
BOfNat(n) == IF n = 0 THEN <<>> ELSE <<n % LimbBase>> \o BOfNat(n \div LimbBase)

Limb(a, i) == IF i <= Len(a) THEN a[i] ELSE 0
Zeros(q) == [i \in 1..q |-> 0]

RECURSIVE BAddFrom(_, _, _, _)
BAddFrom(a, b, i, carry) ==
    IF i > Len(a) /\ i > Len(b) THEN (IF carry = 0 THEN <<>> ELSE <<carry>>)
    ELSE LET t == Limb(a, i) + Limb(b, i) + carry
         IN  <<t % LimbBase>> \o BAddFrom(a, b, i + 1, t \div LimbBase)
BAdd(a, b) == BTrim(BAddFrom(a, b, 1, 0))

\* a - b, for a >= b
RECURSIVE BSubFrom(_, _, _, _)
BSubFrom(a, b, i, borrow) ==
    IF i > Len(a) THEN <<>>
    ELSE LET t == Limb(a, i) - Limb(b, i) - borrow
         IN  IF t < 0 THEN <<t + LimbBase>> \o BSubFrom(a, b, i + 1, 1)
             ELSE <<t>> \o BSubFrom(a, b, i + 1, 0)
BSub(a, b) == BTrim(BSubFrom(a, b, 1, 0))

\* -1, 0 or 1 as a is below, equal to or above b
BCmp(a, b) ==
    IF Len(a) # Len(b) THEN (IF Len(a) < Len(b) THEN -1 ELSE 1)
    ELSE IF a = b THEN 0
    ELSE LET i == CHOOSE k \in DOMAIN a :
                      a[k] # b[k] /\ \A j \in (k + 1)..Len(a) : a[j] = b[j]
         IN  IF a[i] < b[i] THEN -1 ELSE 1

\* a * k for a natural k below 2^16
RECURSIVE BMulSmallFrom(_, _, _, _)
BMulSmallFrom(a, k, i, carry) ==
    IF i > Len(a) THEN BOfNat(carry)
    ELSE LET t == a[i] * k + carry
         IN  <<t % LimbBase>> \o BMulSmallFrom(a, k, i + 1, t \div LimbBase)
BMulSmall(a, k) == BTrim(BMulSmallFrom(a, k, 1, 0))

RECURSIVE BMulFrom(_, _, _)
BMulFrom(a, b, i) ==
    IF i > Len(b) THEN <<>>
    ELSE BAdd(Zeros(i - 1) \o BMulSmall(a, b[i]), BMulFrom(a, b, i + 1))
BMul(a, b) == BTrim(BMulFrom(a, b, 1))

\* quotient and remainder of a by a natural d, 0 < d < 2^16
RECURSIVE BDivSmallFrom(_, _, _, _)
BDivSmallFrom(a, d, i, rem) ==
    IF i = 0 THEN [q |-> <<>>, r |-> rem]
    ELSE LET t == rem * LimbBase + a[i]
             rest == BDivSmallFrom(a, d, i - 1, t % d)
         IN  [q |-> Append(rest.q, t \div d), r |-> rest.r]
BDivSmall(a, d) ==
    LET x == BDivSmallFrom(a, d, Len(a), 0)
    IN  [q |-> BTrim(x.q), r |-> x.r]

\* a * 2^n and floor(a / 2^n)
BShl(a, n) ==
    IF a = <<>> THEN <<>>
    ELSE Zeros(n \div LimbBits) \o BMulSmall(a, Pow2(n % LimbBits))
BShr(a, n) ==
    BDivSmall(SubSeq(a, (n \div LimbBits) + 1, Len(a)), Pow2(n % LimbBits)).q

RECURSIVE SmallBitLen(_)
SmallBitLen(n) == IF n = 0 THEN 0 ELSE 1 + SmallBitLen(n \div 2)
BitLen(a) == IF a = <<>> THEN 0 ELSE LimbBits * (Len(a) - 1) + SmallBitLen(a[Len(a)])
BIsOdd(a) == a # <<>> /\ a[1] % 2 = 1

FZero == [m |-> <<>>, e |-> 0]

\* the double nearest to (m + f) * 2^e, ties to even, where 0 <= f < 1 and
\* sticky says f > 0; with sticky, m has more than MantissaBits bits
RoundToDouble(m, e, sticky) ==
    IF m = <<>> THEN FZero
    ELSE LET L == BitLen(m)
         IN  IF L <= MantissaBits
             THEN [m |-> BShl(m, MantissaBits - L), e |-> e - (MantissaBits - L)]
             ELSE LET s == L - MantissaBits
                      q == BShr(m, s)
                      rem == BSub(m, BShl(q, s))
                      half == BShl(BOfNat(1), s - 1)
                      c == BCmp(rem, half)
                      up == c > 0 \/ (c = 0 /\ (sticky \/ BIsOdd(q)))
                      q1 == IF up THEN BAdd(q, BOfNat(1)) ELSE q
                  IN  IF BitLen(q1) > MantissaBits
                      THEN [m |-> BShr(q1, 1), e |-> e + s + 1]
                      ELSE [m |-> q1, e |-> e + s]

\* float(n) of a natural n
FOfInt(n) == RoundToDouble(BOfNat(n), 0, FALSE)

\* c / r of two naturals below 128, r > 0: the quotient is taken with 70 more
\* bits than c has, so that it has more bits than a mantissa
FDivInt(c, r) ==
    IF c = 0 THEN FZero
    ELSE LET d == BDivSmall(BShl(BOfNat(c), 70), r)
         IN  RoundToDouble(d.q, -70, d.r # 0)

FMul(a, b) ==
    IF a.m = <<>> \/ b.m = <<>> THEN FZero
    ELSE RoundToDouble(BMul(a.m, b.m), a.e + b.e, FALSE)

FAdd(a, b) ==
    IF a.m = <<>> THEN b
    ELSE IF b.m = <<>> THEN a
    ELSE LET e == Min(a.e, b.e)
         IN  RoundToDouble(BAdd(BShl(a.m, a.e - e), BShl(b.m, b.e - e)), e, FALSE)

\* -1, 0 or 1 as a is below, equal to or above b
FCmp(a, b) ==
    LET e == Min(a.e, b.e)
    IN  BCmp(BShl(a.m, a.e - e), BShl(b.m, b.e - e))

\* exp_score, skills_score, overall_score and the returned value, as doubles
\* the literals 100, 0.4 and 0.6: the doubles nearest to 100, 2/5 and 3/5
Hundred == FOfInt(100)
TwoFifths == FDivInt(2, 5)
ThreeFifths == FDivInt(3, 5)

ExpScoreDouble(candidate_years, required_years) ==
    IF required_years = 0 \/ candidate_years >= required_years
    THEN Hundred
    ELSE FMul(FDivInt(candidate_years, required_years), Hundred)

SkillsScoreDouble(total_occurrences, max_possible) ==
    IF max_possible # 0
    THEN FMul(FDivInt(total_occurrences, max_possible), Hundred)
    ELSE FZero

\* 0.4 * exp_score + 0.6 * skills_score
OverallScoreDouble(exp_score, skills_score) ==
    FAdd(FMul(TwoFifths, exp_score), FMul(ThreeFifths, skills_score))

ClampDouble(overall_score) ==
    IF FCmp(overall_score, Hundred) < 0 THEN overall_score ELSE Hundred

calculate_similarity_score_double(resume_text, jd_key_skills, resume_years, jd_years) ==
    LET candidate_years == ParseYears(resume_years)
        required_years == ParseYears(jd_years)
        jd_skills == LowerAll(jd_key_skills)
        skill_appearances == SkillAppearances(resume_text, jd_skills)
        exp_score == ExpScoreDouble(candidate_years, required_years)
        total_occurrences == TotalOccurrences(resume_text, jd_skills)
        max_possible == 3 * Len(jd_skills)
        skills_score == SkillsScoreDouble(total_occurrences, max_possible)
        overall_score == OverallScoreDouble(exp_score, skills_score)
    IN  IF Gate(jd_skills, skill_appearances)
        THEN [fn |-> "calculate_similarity_score_double", gated |-> TRUE,
              candidate_years |-> candidate_years, required_years |-> required_years,
              score |-> FZero]
        ELSE [fn |-> "calculate_similarity_score_double", gated |-> FALSE,
              candidate_years |-> candidate_years, required_years |-> required_years,
              total_occurrences |-> total_occurrences,
              score |-> ClampDouble(overall_score)]

ScoreDoubleCalls ==
    [fn : {"calculate_similarity_score_double"}, resume_text : Texts,
     jd_key_skills : SkillLists, resume_years : YearsStrs, jd_years : YearsStrs]

InitScoreDouble == call \in ScoreDoubleCalls /\ ret = NoRet /\ SessionInit

CallScoreDouble ==
    /\ call.fn = "calculate_similarity_score_double"
    /\ ret = NoRet
    /\ ret' = calculate_similarity_score_double(call.resume_text, call.jd_key_skills,
                                                call.resume_years, call.jd_years)
    /\ UNCHANGED <<call, session>>

SpecScoreDouble == InitScoreDouble /\ [][CallScoreDouble]_vars

ScoreDoubleReturned == ret.fn = "calculate_similarity_score_double"

\* the double a is at least the rational p / q
FGeqRat(a, p, q) ==
    IF a.e <= 0
    THEN BCmp(BMulSmall(a.m, q), BShl(BOfNat(p), 0 - a.e)) >= 0
    ELSE BCmp(BShl(BMulSmall(a.m, q), a.e), BOfNat(p)) >= 0

\* C28: with n >= 1 required skills of which at least one occurs in the resume
\* text the score is strictly positive and at least 20 / n, whatever the years
\* are; a score of 0 arises only from the zero-evidence gate, or from an empty
\* skill list with candidate years 0 and required years above 0.
C28_PositiveFloor ==
    ScoreDoubleReturned =>
        /\ (call.jd_key_skills # <<>> /\ ~NoSkillOccurs) =>
              /\ ret.score # FZero
              /\ FGeqRat(ret.score, 20, Len(call.jd_key_skills))
        /\ ret.score = FZero =>
              \/ call.jd_key_skills # <<>> /\ NoSkillOccurs
              \/ /\ call.jd_key_skills = <<>>
                 /\ YearsValue(call.resume_years) = 0
                 /\ YearsValue(call.jd_years) > 0

(***************************************************************************)
(* Properties of the explanation analyze_similarity returns                *)
(***************************************************************************)
\* the response lines of the form <number>|<category>|<skill>, each with the
\* score, category and resonant skill it states
SummaryForms ==
    { <<"8", "5", "|", "Good", "|", "Python">>,
      <<"1", "5", "0", "|", "Best", "|", "Python">>,
      <<" ", "7", ".", "5", "|", " ", "Bad", " ", "|", " ">> }
StatedSummary(line) ==
    IF line = <<"8", "5", "|", "Good", "|", "Python">>
    THEN [score |-> Rat(85, 1), category |-> <<"Good">>, resonant_skill |-> <<"Python">>]
    ELSE IF line = <<"1", "5", "0", "|", "Best", "|", "Python">>
    THEN [score |-> Rat(150, 1), category |-> <<"Best">>, resonant_skill |-> <<"Python">>]
    ELSE [score |-> Rat(75, 10), category |-> <<"Bad">>, resonant_skill |-> None]

\* a response line without the spaces around it
Trimmed(line) ==
    IF line = <<" ", "7", ".", "5", "|", " ", "Bad", " ", "|", " ">>
    THEN <<"7", ".", "5", "|", " ", "Bad", " ", "|">>
    ELSE line

\* the index of the last line of the summary form, 0 if there is none
LastSummaryIndex(result) ==
    LET S == {k \in DOMAIN result : result[k] \in SummaryForms}
    IN  IF S = {} THEN 0 ELSE CHOOSE k \in S : \A l \in S : l <= k

\* the non-empty lines from index i on, trimmed, except the one at index skip
RECURSIVE OtherLines(_, _, _)
OtherLines(result, i, skip) ==
    IF i > Len(result) THEN <<>>
    ELSE (IF i = skip \/ result[i] = <<" ">> THEN <<>> ELSE <<Trimmed(result[i])>>)
         \o OtherLines(result, i + 1, skip)

\* C29: score, category and resonant skill come from the last non-empty line
\* of the form <number>|<category>|<skill>, and the explanation is made of all
\* other non-empty lines in order: the summary line is never part of it and no
\* other line is dropped, wherever the summary line stands.
C29_ExplanationIsRest ==
    AnalyzeReturned =>
        LET k == LastSummaryIndex(call.result)
        IN  /\ k # 0 =>
                  /\ REq(ret.score, StatedSummary(call.result[k]).score)
                  /\ ret.category = StatedSummary(call.result[k]).category
                  /\ ret.resonant_skill = StatedSummary(call.result[k]).resonant_skill
            /\ ret.explanation = OtherLines(call.result, 1, k)

(***************************************************************************)
(* Calls of the scorer with years as the number inputs of the app give     *)
(* them: non-negative numbers                                              *)
(***************************************************************************)
NumericSkillStrs == {<<"P">>, <<"p", "p">>, <<"x">>}
CandidateYearsStrs == {<<"0">>, <<"2">>, <<"2", ".", "5">>, <<"5">>}
RequiredYearsStrs == {<<"0">>, <<"4">>}

\* resume texts: occurrences of "P" with at most one other character among them
NumericTexts ==
    {t \in Texts : Cardinality({i \in DOMAIN t : t[i] # "P"}) <= 1}

ScoreNumericCalls ==
    [fn : {"calculate_similarity_score_double"}, resume_text : NumericTexts,
     jd_key_skills : SeqsUpTo(NumericSkillStrs, MaxSkills),
     resume_years : CandidateYearsStrs, jd_years : RequiredYearsStrs]

InitScoreNumeric == call \in ScoreNumericCalls /\ ret = NoRet /\ SessionInit

SpecScoreNumeric == InitScoreNumeric /\ [][CallScoreDouble]_vars

\* the number a candidate-years string states, in tenths
YearsTenths(s) ==
    IF s = <<"0">> THEN 0
    ELSE IF s = <<"2">> THEN 20
    ELSE IF s = <<"2", ".", "5">> THEN 25
    ELSE 50

\* the score of the call with another resume text and other candidate years
ScoreWith(resume_text, resume_years) ==
    calculate_similarity_score_double(resume_text, call.jd_key_skills,
                                      resume_years, call.jd_years).score

\* adding skill to the text at either end leaves the occurrences of the
\* other required skills as they were
OthersUnchanged(skill, longer) ==
    \A j \in DOMAIN call.jd_key_skills :
        Lower(call.jd_key_skills[j]) # Lower(skill) =>
            Occurrences(Lower(longer), Lower(call.jd_key_skills[j]))
                = Occurrences(Lower(call.resume_text), Lower(call.jd_key_skills[j]))

\* C30: the score is monotone: with the other inputs fixed, higher candidate
\* years never lower it, and one more occurrence of a required skill, added
\* at either end of the resume text, never lowers it; once a skill occurs 3
\* times, one more occurrence of it (the other skills occurring as before)
\* leaves the score unchanged.
C30_Monotone ==
    ScoreDoubleReturned =>
        /\ \A y \in CandidateYearsStrs :
              YearsTenths(call.resume_years) <= YearsTenths(y) =>
                  FCmp(ret.score, ScoreWith(call.resume_text, y)) <= 0
        /\ \A i \in DOMAIN call.jd_key_skills :
              LET skill == call.jd_key_skills[i]
              IN  \A longer \in {call.resume_text \o skill, skill \o call.resume_text} :
                      LET after == ScoreWith(longer, call.resume_years)
                      IN  /\ FCmp(ret.score, after) <= 0
                          /\ (/\ Occurrences(Lower(call.resume_text), Lower(skill)) >= 3
                              /\ OthersUnchanged(skill, longer))
                                => after = ret.score

\* "PPP" against the skills P and x with 2 years for 4 required: a fourth P
\* changes nothing, 5 years raise the score
C30_Witness ==
    /\ ScoreDoubleReturned
    /\ call.resume_text = <<"P", "P", "P">>
    /\ call.jd_key_skills = <<<<"P">>, <<"x">>>>
    /\ call.resume_years = <<"2">>
    /\ call.jd_years = <<"4">>
    /\ ScoreWith(<<"P", "P", "P", "P">>, <<"2">>) = ret.score
    /\ FCmp(ret.score, ScoreWith(<<"P", "P", "P">>, <<"5">>)) < 0
    /\ FCmp(ScoreWith(<<"P", "P">>, <<"2">>), ret.score) < 0

====
